---- MODULE Spec2Model ----
(***************************************************************************)
(* A model of the census content pipeline:                                 *)
(*   src/make_atlas_content_json.py    (workbook -> topics/variables/...)  *)
(*   src/categories_to_content_json.py (parsed variables -> content json)  *)
(*                                                                         *)
(* Python strings are modelled as sequences of one-character strings, so   *)
(* that strip, lower, split, replace, endswith and slugify are computed    *)
(* the way the code computes them.  Cell values are tagged records         *)
(* (None / str / int) because a worksheet cell may hold any of them.       *)
(***************************************************************************)
EXTENDS Integers, Sequences, FiniteSets, TLC

VARIABLES
    \* ---- get_topics (make_atlas_content_json.py) ----
    config_rows,        \* argument: the list of config rows
    metadata,           \* argument: the loaded lookup tables
    row,                \* number of config rows the for-loop has consumed
    topics,             \* local: the accumulated list of CensusTopic
    name_mnemonic_or_title, \* local: the topic cell's value of the last row
    topic_metadata,     \* local: result of the last get_topic_metadata call
    topic_variable,     \* local: result of the last get_variable call
    stdout,             \* what print() has emitted so far
    pc,                 \* control position of the running routine
    fault,              \* the exception that ended the routine, if any
    \* ---- get_required_classifications, first half ----
    cls_header,         \* first row of the classification worksheet (values)
    required_cls_str,   \* the "Classifications to keep" cell of the config row
    cls_col_indices,    \* local of get_required_classifications
    required_cls_col_indices, \* local of get_required_classifications
    \* ---- get_required_classifications, as a whole ----
    flag_ws,            \* argument cls_ws: the classification worksheet
    flag_config_row,    \* argument config_row
    flag_classifications, \* the returned list of CensusClassification
    \* ---- get_categories ----
    cat_codes_col,      \* argument: column of cells
    cat_name_col,       \* argument: column of cells
    cat_result,         \* returned list or raised exception
    \* ---- parse_categories.py ----
    ps_codes,           \* with_ranges_expanded: argument codes
    ps_i,               \* with_ranges_expanded: codes the for-loop has consumed
    ps_result,          \* with_ranges_expanded: local result
    ps_sheet,           \* extract_categories, parse_sheet: the worksheet
    ps_column,          \* extract_categories: argument column; parse_sheet: header cells consumed
    ps_row,             \* extract_categories: local row
    ps_extra_strings,   \* extract_categories: local extra_strings
    ps_categories,      \* extract_categories: local categories
    ps_seen,            \* extract_categories: number of cells of the column read so far (history)
    ps_selected_categories, \* parse_sheet: local selected_categories
    ps_classifications, \* parse_sheet: local classifications
    ps_selected_default,\* parse_sheet: local selected_default
    ps_parsed,          \* parse_sheet: local number_of_selected_categories_parsed
    ps_var_details_map, \* parse_sheet: argument var_details_map
    ps_selected_vars,   \* parse_sheet: argument selected_vars
    ps_return,          \* parse_sheet: the returned value
    \* ---- main() of both scripts ----
    prog,               \* which script runs
    files,              \* the input files that exist, with their content
    wb,                 \* local of main: the loaded workbook
    json_variables,     \* content of the input json of categories_to_content_json
    additional_metadata,\* tables loaded by load_additional_metadata
    result,             \* local of main: the list built for json.dump
    output_file,        \* the destination file
    output_file0        \* the destination file before the run (history)

vars == << config_rows, metadata, row, topics, name_mnemonic_or_title,
           topic_metadata, topic_variable, stdout, pc, fault, cls_header, required_cls_str, cls_col_indices,
           required_cls_col_indices, flag_ws, flag_config_row, flag_classifications, cat_codes_col, cat_name_col, cat_result,
           ps_codes, ps_i, ps_result, ps_sheet, ps_column, ps_row, ps_extra_strings, ps_categories,
           ps_seen, ps_selected_categories, ps_classifications, ps_selected_default, ps_parsed,
           ps_var_details_map, ps_selected_vars, ps_return,
           prog, files, wb, json_variables, additional_metadata, result,
           output_file, output_file0 >>

topicVars == << config_rows, metadata, row, topics, name_mnemonic_or_title,
                topic_metadata, topic_variable >>
flagVars == << flag_ws, flag_config_row, flag_classifications >>
clsVars == << cls_header, required_cls_str, cls_col_indices, required_cls_col_indices, flagVars >>
rangeVars == << ps_codes, ps_i, ps_result >>
extractVars == << ps_sheet, ps_column, ps_row, ps_extra_strings, ps_categories, ps_seen >>
sheetVars == << ps_selected_categories, ps_classifications, ps_selected_default, ps_parsed,
               ps_var_details_map, ps_selected_vars, ps_return >>
parseVars == << rangeVars, extractVars, sheetVars >>
catVars == << cat_codes_col, cat_name_col, cat_result, parseVars >>
mainVars == << prog, files, wb, json_variables, additional_metadata, result,
               output_file, output_file0 >>

-----------------------------------------------------------------------------
(* Bounds of the model *)

MaxRows == 3
MaxCols == 3
MaxCatRows == 2
MaxVars == 2

-----------------------------------------------------------------------------
(* Python values *)

None == [t |-> "None"]
PyStr(s) == [t |-> "str", s |-> s]
PyInt(n) == [t |-> "int", n |-> n]
IsStr(v) == v.t = "str"

Min(S) == CHOOSE x \in S : \A y \in S : x <= y
Max(S) == CHOOSE x \in S : \A y \in S : x >= y

-----------------------------------------------------------------------------
(* Python str methods, on sequences of characters *)

UpperChars == << "A","B","C","D","E","F","G","H","I","J","K","L","M",
                 "N","O","P","Q","R","S","T","U","V","W","X","Y","Z" >>
LowerChars == << "a","b","c","d","e","f","g","h","i","j","k","l","m",
                 "n","o","p","q","r","s","t","u","v","w","x","y","z" >>
DigitChars == { "0","1","2","3","4","5","6","7","8","9" }

IsUpper(c) == \E i \in 1..26 : UpperChars[i] = c
IsLower(c) == \E i \in 1..26 : LowerChars[i] = c
SpaceChars == { " ", "\t", "\n" }
IsSpace(c) == c \in SpaceChars

LowerChar(c) == IF IsUpper(c) THEN LowerChars[CHOOSE i \in 1..26 : UpperChars[i] = c] ELSE c
UpperChar(c) == IF IsLower(c) THEN UpperChars[CHOOSE i \in 1..26 : LowerChars[i] = c] ELSE c

\* str.lower()
Lower(s) == [i \in 1..Len(s) |-> LowerChar(s[i])]

\* str.strip(chars)
StripChars(s, chars) ==
    LET keep == { i \in 1..Len(s) : s[i] \notin chars }
    IN  IF keep = {} THEN << >> ELSE SubSeq(s, Min(keep), Max(keep))

\* str.strip()
Strip(s) == StripChars(s, SpaceChars)

\* str.title(): a letter is upper-cased when it does not follow a letter
Title(s) ==
    [i \in 1..Len(s) |->
        IF i > 1 /\ (IsUpper(s[i-1]) \/ IsLower(s[i-1]))
        THEN LowerChar(s[i]) ELSE UpperChar(s[i])]

\* str.endswith(suffix)
EndsWith(s, suffix) ==
    /\ Len(suffix) <= Len(s)
    /\ SubSeq(s, Len(s) - Len(suffix) + 1, Len(s)) = suffix

\* str.replace(old, new) for a non-empty old
RECURSIVE Replace(_, _, _)
Replace(s, old, new) ==
    IF Len(s) < Len(old) THEN s
    ELSE IF SubSeq(s, 1, Len(old)) = old
         THEN new \o Replace(SubSeq(s, Len(old) + 1, Len(s)), old, new)
         ELSE << Head(s) >> \o Replace(Tail(s), old, new)

\* str.split(sep) for a one-character sep
RECURSIVE Split(_, _)
Split(s, sep) ==
    LET at == { i \in 1..Len(s) : s[i] = sep }
    IN  IF at = {} THEN << s >>
        ELSE << SubSeq(s, 1, Min(at) - 1) >> \o Split(SubSeq(s, Min(at) + 1, Len(s)), sep)

\* "".join(s.split()): every whitespace character removed
JoinSplit(s) == SelectSeq(s, LAMBDA c : ~IsSpace(c))

-----------------------------------------------------------------------------
(* make_atlas_content_json.py: utilities *)

\* cmp_strings
cmp_strings(string1, string2) == Strip(Lower(string1)) = Strip(Lower(string2))

\* cmp_string_to_list
cmp_string_to_list(string1, strList) ==
    \E i \in 1..Len(strList) : cmp_strings(string1, strList[i])

\* NOT_DATA = ("return to index", "does not apply", "no code required")
NOT_DATA ==
    << << "r","e","t","u","r","n"," ","t","o"," ","i","n","d","e","x" >>,
       << "d","o","e","s"," ","n","o","t"," ","a","p","p","l","y" >>,
       << "n","o"," ","c","o","d","e"," ","r","e","q","u","i","r","e","d" >> >>

\* Characters outside ASCII are written by their code point:
\*   "U+00E2" a with circumflex, "U+20AC" euro sign,
\*   "U+201C" left double quotation mark, "U+2013" en dash
\* unicodedata.normalize("NFKD", c).encode("ascii", "ignore"): an ASCII
\* character is kept, an accented letter loses its accent, anything else goes
IsAscii(c) == IsUpper(c) \/ IsLower(c) \/ c \in DigitChars \/ IsSpace(c)
                \/ c \in { "-", "_", "=", ">", ",", "!", "'", "(", ")", ".", "/" }
AsciiFold(s) ==
    LET fold(c) == IF c = "U+00E2" THEN << "a" >> ELSE IF IsAscii(c) THEN << c >> ELSE << >>
        RECURSIVE go(_)
        go(r) == IF r = << >> THEN << >> ELSE fold(Head(r)) \o go(Tail(r))
    IN  go(s)

IsWord(c) == IsUpper(c) \/ IsLower(c) \/ c \in DigitChars \/ c = "_"
IsDashOrSpace(c) == c = "-" \/ IsSpace(c)

\* re.sub(r"[-\s]+", "-", s): every maximal run of dashes and whitespace
\* becomes one dash
RECURSIVE CollapseDashes(_)
CollapseDashes(s) ==
    IF s = << >> THEN << >>
    ELSE IF IsDashOrSpace(Head(s))
         THEN IF Len(s) > 1 /\ IsDashOrSpace(s[2])
              THEN CollapseDashes(Tail(s))
              ELSE << "-" >> \o CollapseDashes(Tail(s))
         ELSE << Head(s) >> \o CollapseDashes(Tail(s))

\* slugify(value), allow_unicode = False
slugify(value) ==
    LET ascii == AsciiFold(value)
        kept  == SelectSeq(Lower(ascii), LAMBDA c : IsWord(c) \/ IsDashOrSpace(c))
    IN  StripChars(CollapseDashes(kept), { "-", "_" })

-----------------------------------------------------------------------------
(* Worksheet cells.  A worksheet is a sequence of columns, a column a       *)
(* sequence of cells; Python's 0-based index i is position i + 1 here.      *)

NoBorder == [left |-> "None", right |-> "None"]
LeftBorder == [left |-> "thin", right |-> "None"]
RightBorder == [left |-> "None", right |-> "thin"]

Cell(v, b) == [value |-> v, hyperlink |-> None, border |-> b]
Plain(v) == Cell(v, NoBorder)
Link(v, loc) == [value |-> v, hyperlink |-> [t |-> "Hyperlink", location |-> loc],
                 border |-> NoBorder]

\* str(n) for an int
DigitSeq == << "0","1","2","3","4","5","6","7","8","9" >>
RECURSIVE IntToStr(_)
IntToStr(n) ==
    IF n < 0 THEN << "-" >> \o IntToStr(-n)
    ELSE IF n < 10 THEN << DigitSeq[n + 1] >>
    ELSE IntToStr(n \div 10) \o << DigitSeq[(n % 10) + 1] >>

\* str(value) for a cell value
ToStr(v) ==
    CASE v.t = "str" -> v.s
      [] v.t = "int" -> IntToStr(v.n)
      [] OTHER -> << "N","o","n","e" >>

\* Outcome of a call that may raise: the returned value or the exception,
\* with the lines printed before it returned or raised.
Return(v, out) == [ok |-> TRUE, val |-> v, out |-> out]
Raise(e, out) == [ok |-> FALSE, exc |-> e, out |-> out]
Exc(type) == [type |-> type]

-----------------------------------------------------------------------------
(* make_atlas_content_json.py: category processing *)

\* get_category_cell_indices
get_category_cell_indices(col) ==
    SelectSeq([k \in 1..(Len(col) - 1) |-> k],
              LAMBDA i : /\ col[i + 1].value # None
                         /\ (col[i + 1].border.left # "None"
                             \/ col[i + 1].border.right # "None"))

\* "â€“" as the source file holds it: three characters, not an en dash
MOJIBAKE_DASH == << "U+00E2", "U+20AC", "U+201C" >>

\* make_cat_code, from the statement after cat_codes = "".join(...) on
normalise_cat_codes(joined) ==
    LET replaced == Replace(Replace(joined, MOJIBAKE_DASH, << "-" >>), << ">" >>, << "-" >>)
    IN  IF replaced[1] = "0" THEN Tail(replaced) ELSE replaced

\* make_cat_code: IndexError when the code is empty once whitespace is removed
make_cat_code(cat_name, cat_codes) ==
    LET joined == JoinSplit(ToStr(cat_codes))
    IN  IF joined = << >>
        THEN Raise(Exc("IndexError"), << >>)
        ELSE Return(slugify(ToStr(cat_name)) \o << "=" >> \o normalise_cat_codes(joined), << >>)

\* The loop of get_categories over indices[from..]: the list of categories,
\* or the first exception an iteration raises
RECURSIVE categories_loop(_, _, _, _)
categories_loop(codes_col, name_col, indices, from) ==
    IF from > Len(indices) THEN Return(<< >>, << >>)
    ELSE LET i == indices[from]
             name == name_col[i + 1].value
         IN  IF ~IsStr(name) THEN Raise(Exc("AttributeError"), << >>)
             ELSE IF cmp_string_to_list(name.s, NOT_DATA)
                  THEN categories_loop(codes_col, name_col, indices, from + 1)
                  ELSE LET code == make_cat_code(name, codes_col[i + 1].value)
                           rest == categories_loop(codes_col, name_col, indices, from + 1)
                       IN  IF ~code.ok THEN code
                           ELSE IF ~rest.ok THEN rest
                           ELSE Return(<< [name |-> name.s,
                                           slug |-> slugify(name.s),
                                           code |-> code.val] >> \o rest.val, << >>)

\* The error get_categories raises: the classification it names and the list
\* of cells of its message
MismatchCells(cat_code_cell_indices, cat_name_cell_indices) ==
    { cat_code_cell_indices[k] + 1 : k \in 1..Len(cat_code_cell_indices) }
        \ { cat_name_cell_indices[k] + 1 : k \in 1..Len(cat_name_cell_indices) }

\* get_categories
get_categories(codes_col, name_col) ==
    LET cat_code_cell_indices == get_category_cell_indices(codes_col)
        cat_name_cell_indices == get_category_cell_indices(name_col)
    IN  IF cat_code_cell_indices # cat_name_cell_indices
        THEN Raise([type |-> "Exception",
                    classification |-> codes_col[1].value,
                    cells |-> MismatchCells(cat_code_cell_indices, cat_name_cell_indices)],
                   << >>)
        ELSE categories_loop(codes_col, name_col, cat_code_cell_indices, 1)

-----------------------------------------------------------------------------
(* make_atlas_content_json.py: classification processing *)

\* A config row is the dict of cells of one index row, keyed by column name
\* (get_topics reads cr[TOPIC_NAME_COLUMN].value):
\*   topic            TOPIC_NAME_COLUMN
\*   variable         VAR_HYPERLINK_COLUMN
\*   classifications  CLASSIFICATIONS_TO_INCLUDE_COLUMN
\*   chorolpleth      CHOROLPLETH_DEFAULT_CLASS_COLUMN
\*   dot_density      DOT_DENSITY_DEFAULT_CLASS_COLUMN

ALL == << "a","l","l" >>
SENTINEL_TOPIC ==
    << "n","o","t"," ","f","o","u","n","d"," ","i","n"," ",
       "t","o","p","i","c"," ","m","e","t","a","d","a","t","a","!" >>
SENTINEL_VARIABLE ==
    << "n","o","t"," ","f","o","u","n","d"," ","i","n"," ",
       "v","a","r","i","a","b","l","e"," ","m","e","t","a","d","a","t","a","!" >>
SENTINEL_CLASSIFICATION ==
    << "n","o","t"," ","f","o","u","n","d"," ","i","n"," ",
       "c","l","a","s","s","i","f","i","c","a","t","i","o","n"," ",
       "m","e","t","a","d","a","t","a","!" >>
ONLY_ONE_CLASSIFICATION ==
    << "(","o","n","l","y"," ","o","n","e"," ",
       "c","l","a","s","s","i","f","i","c","a","t","i","o","n",")" >>
NO == << "n","o" >>

\* get_classification_column_indices with the placeholders compared exactly
get_classification_column_indices_exact(col_headers) ==
    LET cls_headers == SelectSeq(col_headers,
                           LAMBDA h : IsStr(h) /\ ~(\E n \in 1..Len(NOT_DATA) : h.s = NOT_DATA[n]))
        positions == SelectSeq([k \in 1..Len(col_headers) |-> k],
                           LAMBDA k : \E j \in 1..Len(cls_headers) :
                                          cls_headers[j] = col_headers[k])
    IN  [n \in 1..Len(positions) |->
            [cls_code |-> col_headers[positions[n]].s,
             cat_codes_col |-> positions[n] - 1,
             cat_name_col |-> positions[n]]]

\* get_classification_column_indices, given the values of the first row
get_classification_column_indices(col_headers) ==
    LET cls_headers == SelectSeq(col_headers,
                           LAMBDA h : IsStr(h) /\ ~cmp_string_to_list(h.s, NOT_DATA))
        positions == SelectSeq([k \in 1..Len(col_headers) |-> k],
                           LAMBDA k : \E j \in 1..Len(cls_headers) :
                                          cls_headers[j] = col_headers[k])
    IN  [n \in 1..Len(positions) |->
            [cls_code |-> col_headers[positions[n]].s,
             cat_codes_col |-> positions[n] - 1,
             cat_name_col |-> positions[n]]]

\* The suffixes of a "Classifications to keep" value that is not "all"
required_cls_of(required) ==
    LET parts == Split(required, ",")
    IN  [k \in 1..Len(parts) |-> Strip(parts[k])]

\* filter_required_classifications, given the value of the config row's cell
filter_required_classifications(cls_column_indices, required) ==
    IF required = PyStr(ALL) THEN Return(cls_column_indices, << >>)
    ELSE IF ~IsStr(required) THEN Raise(Exc("AttributeError"), << >>)
    ELSE LET required_cls == required_cls_of(required.s)
         IN  Return(SelectSeq(cls_column_indices,
                        LAMBDA c : \E k \in 1..Len(required_cls) :
                                       EndsWith(c.cls_code, required_cls[k])),
                    << >>)

\* The rows of metadata[table] that a lookup selects
Found(table, Match(_)) == SelectSeq(table, Match)

\* get_classification_metadata: the returned dict
get_classification_metadata(code, meta) ==
    LET code1 == Replace(code, << " " >>, << >>)
        class_metadata == Found(meta.classifications,
                              LAMBDA m : cmp_strings(code1, m.Classification_Mnemonic))
    IN  [code |-> code1,
         desc |-> IF Len(class_metadata) > 0
                  THEN Strip(class_metadata[1].External_Classification_Label_English)
                  ELSE SENTINEL_CLASSIFICATION]

\* get_classification_metadata: what it prints
get_classification_metadata_print(code, meta) ==
    LET code1 == Replace(code, << " " >>, << >>)
    IN  IF \E k \in 1..Len(meta.classifications) :
               cmp_strings(code1, meta.classifications[k].Classification_Mnemonic)
        THEN << >>
        ELSE << [msg |-> "No metadata found for classification", arg |-> code1] >>

\* get_classification_visualisation_flags comparing the dot-density value
\* with "no" as written, without lower()
get_classification_visualisation_flags_case_sensitive(code, config_row) ==
    IF ~IsStr(config_row.chorolpleth.value) \/ ~IsStr(config_row.dot_density.value)
    THEN Raise(Exc("AttributeError"), << >>)
    ELSE LET default_class_suffix ==
                 Strip(Replace(config_row.chorolpleth.value.s, ONLY_ONE_CLASSIFICATION, << >>))
             dot_density_class_suffix == Strip(config_row.dot_density.value.s)
         IN  Return([chorolpleth_default |-> EndsWith(code, default_class_suffix),
                     dot_density_default |-> /\ dot_density_class_suffix # NO
                                             /\ EndsWith(code, dot_density_class_suffix)],
                    << >>)

\* get_classification_visualisation_flags
get_classification_visualisation_flags(code, config_row) ==
    IF ~IsStr(config_row.chorolpleth.value) \/ ~IsStr(config_row.dot_density.value)
    THEN Raise(Exc("AttributeError"), << >>)
    ELSE LET default_class_suffix ==
                 Strip(Replace(config_row.chorolpleth.value.s, ONLY_ONE_CLASSIFICATION, << >>))
             dot_density_class_suffix == Strip(config_row.dot_density.value.s)
         IN  Return([chorolpleth_default |-> EndsWith(code, default_class_suffix),
                     dot_density_default |-> /\ Lower(dot_density_class_suffix) # NO
                                             /\ EndsWith(code, dot_density_class_suffix)],
                    << >>)

\* The loop of get_required_classifications over required[from..]
RECURSIVE classifications_loop(_, _, _, _, _)
classifications_loop(cls_ws, required, from, config_row, meta) ==
    IF from > Len(required) THEN Return(<< >>, << >>)
    ELSE LET c == required[from]
             cls_metadata == get_classification_metadata(c.cls_code, meta)
             out == get_classification_metadata_print(c.cls_code, meta)
             cls_flags == get_classification_visualisation_flags(c.cls_code, config_row)
         IN  IF ~cls_flags.ok THEN Raise(cls_flags.exc, out)
             ELSE IF c.cat_name_col + 1 > Len(cls_ws) THEN Raise(Exc("IndexError"), out)
             ELSE LET categories == get_categories(cls_ws[c.cat_codes_col + 1],
                                                   cls_ws[c.cat_name_col + 1])
                      rest == classifications_loop(cls_ws, required, from + 1, config_row, meta)
                  IN  IF ~categories.ok THEN Raise(categories.exc, out)
                      ELSE IF ~rest.ok THEN Raise(rest.exc, out \o rest.out)
                      ELSE Return(<< [code |-> cls_metadata.code,
                                      slug |-> slugify(cls_metadata.code),
                                      desc |-> cls_metadata.desc,
                                      chorolpleth_default |-> cls_flags.val.chorolpleth_default,
                                      dot_density_default |-> cls_flags.val.dot_density_default,
                                      categories |-> categories.val] >> \o rest.val,
                                  out \o rest.out)

\* The values of the first row of a worksheet
HeaderValues(cls_ws) == [j \in 1..Len(cls_ws) |-> cls_ws[j][1].value]

\* get_required_classifications
get_required_classifications(cls_ws, config_row, meta) ==
    LET indices == get_classification_column_indices(HeaderValues(cls_ws))
        required == filter_required_classifications(indices, config_row.classifications.value)
    IN  IF ~required.ok THEN required
        ELSE classifications_loop(cls_ws, required.val, 1, config_row, meta)

-----------------------------------------------------------------------------
(* make_atlas_content_json.py: variable processing *)

\* get_variable_code: the returned sheet name, or None
get_variable_code(config_row) ==
    LET var_code_cell == config_row.variable
    IN  IF var_code_cell.hyperlink = None THEN None
        ELSE PyStr(Replace(Split(var_code_cell.hyperlink.location, "!")[1], << "'" >>, << >>))

\* get_variable_code: what it prints
get_variable_code_print(config_row) ==
    IF config_row.variable.hyperlink = None
    THEN << [msg |-> "Ignoring variable", arg |-> config_row.variable.value] >>
    ELSE << >>

\* get_variable_metadata: the returned dict
get_variable_metadata(code, meta) ==
    LET var_metadata == Found(meta.variables,
                            LAMBDA m : cmp_strings(code, m.Variable_Mnemonic))
    IN  IF Len(var_metadata) > 0
        THEN [name |-> Strip(var_metadata[1].Variable_Title),
              desc |-> Strip(var_metadata[1].Variable_Description),
              units |-> Strip(var_metadata[1].Statistical_Unit)]
        ELSE [name |-> Title(Strip(Replace(code, << "_" >>, << " " >>))),
              desc |-> SENTINEL_VARIABLE,
              units |-> SENTINEL_VARIABLE]

\* get_variable_metadata: what it prints
get_variable_metadata_print(code, meta) ==
    IF \E k \in 1..Len(meta.variables) : cmp_strings(code, meta.variables[k].Variable_Mnemonic)
    THEN << >>
    ELSE << [msg |-> "No metadata found for variable", arg |-> code] >>

\* get_variable: a bare return (None) when the row has no hyperlink,
\* KeyError when the workbook has no sheet of that name
get_variable(workbook, config_row, meta) ==
    LET var_code == get_variable_code(config_row)
        out0 == get_variable_code_print(config_row)
    IN  IF var_code = None THEN Return(None, out0)
        ELSE LET var_metadata == get_variable_metadata(var_code.s, meta)
                 out1 == out0 \o get_variable_metadata_print(var_code.s, meta)
             IN  IF var_code.s \notin DOMAIN workbook THEN Raise(Exc("KeyError"), out1)
                 ELSE LET cls == get_required_classifications(workbook[var_code.s], config_row, meta)
                      IN  IF ~cls.ok THEN Raise(cls.exc, out1 \o cls.out)
                          ELSE Return([t |-> "CensusVariable",
                                       name |-> var_metadata.name,
                                       code |-> var_code.s,
                                       slug |-> slugify(var_code.s),
                                       desc |-> var_metadata.desc,
                                       units |-> var_metadata.units,
                                       classifications |-> cls.val],
                                      out1 \o cls.out)

-----------------------------------------------------------------------------
(* make_atlas_content_json.py: topic processing *)

\* get_topic_metadata with the last matching row taken instead of the first
get_topic_metadata_last_match(ident, meta) ==
    LET found == Found(meta.topics,
                     LAMBDA m : cmp_string_to_list(ident,
                                    << m.Topic_Mnemonic, m.Topic_Description, m.Topic_Title >>))
    IN  IF Len(found) > 0
        THEN [name |-> Strip(found[Len(found)].Topic_Title),
              desc |-> Strip(found[Len(found)].Topic_Description)]
        ELSE [name |-> ident,
              desc |-> SENTINEL_TOPIC]

\* get_topic_metadata: the returned dict
get_topic_metadata(ident, meta) ==
    LET found == Found(meta.topics,
                     LAMBDA m : cmp_string_to_list(ident,
                                    << m.Topic_Mnemonic, m.Topic_Description, m.Topic_Title >>))
    IN  IF Len(found) > 0
        THEN [name |-> Strip(found[1].Topic_Title),
              desc |-> Strip(found[1].Topic_Description)]
        ELSE [name |-> ident,
              desc |-> SENTINEL_TOPIC]

\* get_topic_metadata: what it prints
get_topic_metadata_print(ident, meta) ==
    IF \E k \in 1..Len(meta.topics) :
           cmp_string_to_list(ident,
               << meta.topics[k].Topic_Mnemonic, meta.topics[k].Topic_Description,
                  meta.topics[k].Topic_Title >>)
    THEN << >>
    ELSE << [msg |-> "No metadata found for topic", arg |-> ident] >>

-----------------------------------------------------------------------------
(* Inputs of get_topics: a workbook, lookup tables and index rows *)

\* A worksheet with one classification, as in the end-to-end scenario
WS_AGE_5YR ==
    << << Plain(PyStr(<< "A","G","E","_","5","A" >>)), Cell(PyStr(<< "0","-","4" >>), LeftBorder), Cell(PyStr(<< "5","-","9" >>), LeftBorder) >>,
       << Plain(None), Cell(PyStr(<< "0"," ","t","o"," ","4" >>), RightBorder), Cell(PyStr(<< "5"," ","t","o"," ","9" >>), RightBorder) >> >>

\* A worksheet with two classifications and a "return to index" column
WS_SEX ==
    << << Plain(PyStr(<< "S","E","X","_","2","A" >>)), Cell(PyInt(1), LeftBorder) >>,
       << Plain(None), Cell(PyStr(<< "F","e","m","a","l","e" >>), RightBorder) >>,
       << Plain(PyStr(<< "S","E","X"," ","3","A" >>)), Cell(PyStr(<< "0","1" >>), LeftBorder) >>,
       << Plain(None), Cell(PyStr(<< "M","a","l","e" >>), RightBorder) >>,
       << Plain(PyStr(<< "R","e","t","u","r","n"," ","t","o"," ","i","n","d","e","x" >>)), Plain(None) >> >>

\* A worksheet whose name column has a bordered row the code column lacks
WS_BAD ==
    << << Plain(PyStr(<< "B","A","D","_","2","A" >>)), Cell(PyStr(<< "1" >>), LeftBorder), Plain(PyStr(<< "2" >>)) >>,
       << Plain(None), Cell(PyStr(<< "x" >>), RightBorder), Cell(PyStr(<< "y" >>), RightBorder) >> >>

Workbook ==
    (<< "A","G","E","_","5","Y","R" >> :> WS_AGE_5YR) @@ (<< "S","E","X" >> :> WS_SEX) @@ (<< "B","A","D" >> :> WS_BAD)

TopicRow(m, d, t) == [Topic_Mnemonic |-> m, Topic_Description |-> d, Topic_Title |-> t]

\* Topic.csv: "Age" matches the first row by description and the second by title
TopicsA ==
    << TopicRow(<< "D","E","M" >>, << "A","g","e" >>, << " ","D","e","m","o","g","r","a","p","h","y"," " >>),
       TopicRow(<< "A","G","E" >>, << "A","g","e"," ","b","r","e","a","k","d","o","w","n","s" >>, << "A","g","e" >>) >>
TopicsB ==
    << TopicRow(<< "A","G","E" >>, << "A","g","e"," ","b","r","e","a","k","d","o","w","n","s" >>, << "A","g","e"," " >>) >>

VariablesTable ==
    << [Variable_Mnemonic |-> << "a","g","e","_","5","y","r" >>, Variable_Title |-> << "A","g","e"," ","b","a","n","d"," " >>,
        Variable_Description |-> << "A","g","e"," ","i","n"," ","b","a","n","d","s" >>, Statistical_Unit |-> << "P","e","r","s","o","n" >>] >>

ClassificationsTable ==
    << [Classification_Mnemonic |-> << "s","e","x","_","3","a" >>,
        External_Classification_Label_English |-> << "S","e","x"," ","(","3",")"," " >>] >>

MetadataChoices ==
    { [topics |-> t, variables |-> VariablesTable, classifications |-> ClassificationsTable] :
        t \in { TopicsA, TopicsB } }

ConfigRow(topic, variable, classifications, chorolpleth, dot_density) ==
    [topic |-> Plain(topic), variable |-> variable,
     classifications |-> Plain(classifications),
     chorolpleth |-> Plain(chorolpleth), dot_density |-> Plain(dot_density)]

ConfigRowChoices ==
    { ConfigRow(PyStr(<< "A","g","e" >>), Link(PyStr(<< "A","g","e" >>), << "'","A","G","E","_","5","Y","R","'","!","A","1" >>),
                PyStr(ALL), PyStr(<< "5","A" >>), PyStr(<< "N","o" >>)),
      ConfigRow(PyStr(<< " ","a","g","e"," ","b","r","e","a","k","d","o","w","n","s" >>), Link(PyStr(<< "S","e","x" >>), << "S","E","X","!","A","1" >>),
                PyStr(<< "2","A",","," ","3","A" >>), PyStr(<< "2","A"," ","(","o","n","l","y"," ","o","n","e"," ","c","l","a","s","s","i","f","i","c","a","t","i","o","n",")" >>), PyStr(<< "3","A" >>)),
      ConfigRow(None, Link(PyStr(<< "A","g","e" >>), << "'","A","G","E","_","5","Y","R","'","!","A","1" >>),
                PyStr(ALL), PyStr(<< "5","A" >>), PyStr(<< "n","o" >>)),
      ConfigRow(PyStr(<< "Z","e","d" >>), Plain(PyStr(<< "Z","e","d","_","V","a","r" >>)),
                PyStr(ALL), PyStr(<< "2","A" >>), PyStr(<< "n","o" >>)),
      ConfigRow(PyStr(<< "Z","e","d"," " >>), Link(PyStr(<< "S","e","x" >>), << "S","E","X","!","A","1" >>),
                PyStr(<< "3","A" >>), PyStr(<< "3","A" >>), PyStr(<< "n","o" >>)),
      ConfigRow(PyStr(<< "D","E","M" >>), Link(PyStr(<< "B","a","d" >>), << "B","A","D","!","B","2" >>),
                PyStr(ALL), PyStr(<< "2","A" >>), PyStr(<< "n","o" >>)) }

\* The sequences over S of length lo..hi
SeqsOf(S, lo, hi) == UNION { [1..n -> S] : n \in lo..hi }

-----------------------------------------------------------------------------
(* get_topics as a state machine: one step per iteration of its for-loop *)

IdleTopics ==
    /\ config_rows = << >> /\ metadata = None /\ row = 0 /\ topics = << >>
    /\ name_mnemonic_or_title = None /\ topic_metadata = None /\ topic_variable = None
IdleFlags ==
    /\ flag_ws = << >> /\ flag_config_row = None /\ flag_classifications = << >>
IdleCls ==
    /\ cls_header = << >> /\ required_cls_str = None
    /\ cls_col_indices = << >> /\ required_cls_col_indices = << >>
    /\ IdleFlags
IdleRanges ==
    /\ ps_codes = << >> /\ ps_i = 0 /\ ps_result = << >>
IdleExtract ==
    /\ ps_sheet = << >> /\ ps_column = 0 /\ ps_row = 0
    /\ ps_extra_strings = << >> /\ ps_categories = << >> /\ ps_seen = 0
IdleSheet ==
    /\ ps_selected_categories = << >> /\ ps_classifications = << >>
    /\ ps_selected_default = FALSE /\ ps_parsed = 0
    /\ ps_var_details_map = << >> /\ ps_selected_vars = << >> /\ ps_return = None
IdleCat ==
    /\ cat_codes_col = << >> /\ cat_name_col = << >> /\ cat_result = None
    /\ IdleRanges /\ IdleExtract /\ IdleSheet
IdleMain ==
    /\ prog = "none" /\ files = << >> /\ wb = None /\ json_variables = << >>
    /\ additional_metadata = None /\ result = << >>
    /\ output_file = None /\ output_file0 = None

Init ==
    /\ config_rows \in SeqsOf(ConfigRowChoices, 1, MaxRows)
    /\ metadata \in MetadataChoices
    /\ row = 0
    /\ topics = << >>
    /\ name_mnemonic_or_title = None
    /\ topic_metadata = None
    /\ topic_variable = None
    /\ stdout = << >>
    /\ pc = "for"
    /\ fault = None
    /\ IdleCls /\ IdleCat /\ IdleMain

\* The row the loop is about to process
cr == config_rows[row + 1]

\* [t.name for t in topics]
topic_names == { topics[k].name : k \in 1..Len(topics) }

\* The None branch without its continue: the row goes on to be stored
GetTopicsNoTopicName_no_continue ==
    /\ pc = "for" /\ row < Len(config_rows)
    /\ cr.topic.value = None
    /\ name_mnemonic_or_title' = None
    /\ stdout' = Append(stdout, [msg |-> "No topic name found for row", arg |-> row + 1])
    /\ topics' = Append(topics, [name |-> ToStr(None), slug |-> slugify(ToStr(None)),
                                 desc |-> SENTINEL_TOPIC, variables |-> << None >>])
    /\ row' = row + 1
    /\ UNCHANGED << config_rows, metadata, topic_metadata, topic_variable, pc, fault >>
    /\ UNCHANGED << clsVars, catVars, mainVars >>

\* if name_mnemonic_or_title is None: print(...); continue
GetTopicsNoTopicName ==
    /\ pc = "for" /\ row < Len(config_rows)
    /\ cr.topic.value = None
    /\ name_mnemonic_or_title' = None
    /\ stdout' = Append(stdout, [msg |-> "No topic name found for row", arg |-> row + 1])
    /\ row' = row + 1
    /\ UNCHANGED << config_rows, metadata, topics, topic_metadata, topic_variable, pc, fault >>
    /\ UNCHANGED << clsVars, catVars, mainVars >>

\* get_variable raises: the exception leaves get_topics
GetTopicsRaises ==
    /\ pc = "for" /\ row < Len(config_rows)
    /\ cr.topic.value # None
    /\ LET tm == get_topic_metadata(cr.topic.value.s, metadata)
           tv == get_variable(Workbook, cr, metadata)
       IN  /\ ~tv.ok
           /\ name_mnemonic_or_title' = cr.topic.value
           /\ topic_metadata' = tm
           /\ stdout' = stdout \o get_topic_metadata_print(cr.topic.value.s, metadata) \o tv.out
           /\ fault' = tv.exc
           /\ pc' = "raised"
    /\ UNCHANGED << config_rows, metadata, row, topics, topic_variable >>
    /\ UNCHANGED << clsVars, catVars, mainVars >>

\* The Topic created empty, its first Variable dropped
GetTopicsNewTopic_without_variable ==
    /\ pc = "for" /\ row < Len(config_rows)
    /\ cr.topic.value # None
    /\ LET tm == get_topic_metadata(cr.topic.value.s, metadata)
           tv == get_variable(Workbook, cr, metadata)
       IN  /\ tv.ok
           /\ tm.name \notin topic_names
           /\ name_mnemonic_or_title' = cr.topic.value
           /\ topic_metadata' = tm
           /\ topic_variable' = tv.val
           /\ stdout' = stdout \o get_topic_metadata_print(cr.topic.value.s, metadata) \o tv.out
           /\ topics' = Append(topics, [name |-> tm.name,
                                        slug |-> slugify(tm.name),
                                        desc |-> tm.desc,
                                        variables |-> << >>])
    /\ row' = row + 1
    /\ UNCHANGED << config_rows, metadata, pc, fault >>
    /\ UNCHANGED << clsVars, catVars, mainVars >>

\* if topic_metadata["name"] not in topic_names: topics.append(CensusTopic(...))
GetTopicsNewTopic ==
    /\ pc = "for" /\ row < Len(config_rows)
    /\ cr.topic.value # None
    /\ LET tm == get_topic_metadata(cr.topic.value.s, metadata)
           tv == get_variable(Workbook, cr, metadata)
       IN  /\ tv.ok
           /\ tm.name \notin topic_names
           /\ name_mnemonic_or_title' = cr.topic.value
           /\ topic_metadata' = tm
           /\ topic_variable' = tv.val
           /\ stdout' = stdout \o get_topic_metadata_print(cr.topic.value.s, metadata) \o tv.out
           /\ topics' = Append(topics, [name |-> tm.name,
                                        slug |-> slugify(tm.name),
                                        desc |-> tm.desc,
                                        variables |-> << tv.val >>])
    /\ row' = row + 1
    /\ UNCHANGED << config_rows, metadata, pc, fault >>
    /\ UNCHANGED << clsVars, catVars, mainVars >>

\* else: topic = next(filter(...)); topic.variables.append(topic_variable)
GetTopicsExistingTopic ==
    /\ pc = "for" /\ row < Len(config_rows)
    /\ cr.topic.value # None
    /\ LET tm == get_topic_metadata(cr.topic.value.s, metadata)
           tv == get_variable(Workbook, cr, metadata)
       IN  /\ tv.ok
           /\ tm.name \in topic_names
           /\ name_mnemonic_or_title' = cr.topic.value
           /\ topic_metadata' = tm
           /\ topic_variable' = tv.val
           /\ stdout' = stdout \o get_topic_metadata_print(cr.topic.value.s, metadata) \o tv.out
           /\ LET k == Min({ j \in 1..Len(topics) : topics[j].name = tm.name })
              IN  topics' = [topics EXCEPT ![k].variables = Append(@, tv.val)]
    /\ row' = row + 1
    /\ UNCHANGED << config_rows, metadata, pc, fault >>
    /\ UNCHANGED << clsVars, catVars, mainVars >>

\* return AllTopics(topics = topics)
GetTopicsReturn ==
    /\ pc = "for" /\ row = Len(config_rows)
    /\ pc' = "done"
    /\ UNCHANGED << topicVars, stdout, fault, clsVars, catVars, mainVars >>

Next ==
    \/ GetTopicsNoTopicName
    \/ GetTopicsRaises
    \/ GetTopicsNewTopic
    \/ GetTopicsExistingTopic
    \/ GetTopicsReturn

Spec == Init /\ [][Next]_vars

-----------------------------------------------------------------------------
(* Properties of get_topics, checked under Spec *)

\* C1: two rows whose resolved topic names are equal after trimming produce
\* one Topic: no two Topics of the result share a trimmed name.
C1_OneTopicPerTrimmedName ==
    pc = "done" =>
        \A i, j \in 1..Len(topics) :
            Strip(topics[i].name) = Strip(topics[j].name) => i = j

\* C2: a row whose variable cell carries no hyperlink contributes no entry,
\* not even an empty one, to any Topic's variables list.
C2_NoEntryForUnlinkedRow ==
    \A i \in 1..Len(topics) :
        \A k \in 1..Len(topics[i].variables) : topics[i].variables[k] # None

\* C6: a row whose topic identifier is None leaves the accumulated topic list
\* unchanged, emits one diagnostic, and the loop goes on to the next row.
C6_NoTopicRowSkipped ==
    [][ (pc = "for" /\ row < Len(config_rows) /\ config_rows[row + 1].topic.value = None)
        => /\ topics' = topics
           /\ Len(stdout') = Len(stdout) + 1
           /\ stdout'[Len(stdout')].msg = "No topic name found for row"
           /\ row' = row + 1
           /\ pc' = "for" ]_vars

\* A None-topic row came first and a later row still produced its Topic
C6_Witness ==
    /\ pc = "done"
    /\ Len(config_rows) >= 2
    /\ config_rows[1].topic.value = None
    /\ Len(stdout) >= 1 /\ stdout[1].msg = "No topic name found for row"
    /\ Len(topics) = 1 /\ Len(topics[1].variables) = Len(config_rows) - 1

\* The rows of Topic.csv an identifier matches, case and outer whitespace aside
MatchingTopicRows(ident) ==
    { k \in 1..Len(metadata.topics) :
        \E f \in { metadata.topics[k].Topic_Mnemonic,
                   metadata.topics[k].Topic_Description,
                   metadata.topics[k].Topic_Title } :
            Strip(Lower(f)) = Strip(Lower(ident)) }

\* C9: an identifier that matches some lookup row resolves to the trimmed
\* title of the first matching row; one that matches none resolves to itself
\* with the 'not found' description.
C9_FirstMatchWins ==
    (name_mnemonic_or_title # None /\ topic_metadata # None) =>
        LET ident == name_mnemonic_or_title.s
            M == MatchingTopicRows(ident)
        IN  IF M # {}
            THEN /\ topic_metadata.name = Strip(metadata.topics[Min(M)].Topic_Title)
                 /\ topic_metadata.desc # SENTINEL_TOPIC
            ELSE /\ topic_metadata.name = ident
                 /\ topic_metadata.desc = SENTINEL_TOPIC

\* An identifier matched two lookup rows and the first one's title was taken
C9_Witness ==
    /\ topic_metadata # None
    /\ name_mnemonic_or_title # None
    /\ Cardinality(MatchingTopicRows(name_mnemonic_or_title.s)) = 2
    /\ topic_metadata.name = << "D","e","m","o","g","r","a","p","h","y" >>

\* A sequence is a prefix of another
IsPrefix(a, b) == Len(a) <= Len(b) /\ \A k \in 1..Len(a) : b[k] = a[k]

\* C11: at every point during and after get_topics every accumulated Topic has
\* a non-empty variables list, and no step removes a Topic or a variable: each
\* Topic keeps its place and its variables list only grows at the end.
C11_TopicsHaveVariables ==
    /\ [](\A i \in 1..Len(topics) : Len(topics[i].variables) >= 1)
    /\ [][ /\ Len(topics') >= Len(topics)
           /\ \A i \in 1..Len(topics) :
                 /\ topics'[i].name = topics[i].name
                 /\ IsPrefix(topics[i].variables, topics'[i].variables) ]_vars

\* Two Topics were accumulated and one of them received a second Variable
C11_Witness ==
    /\ pc = "done"
    /\ Len(topics) = 2
    /\ \E i \in 1..2 : Len(topics[i].variables) = 2

-----------------------------------------------------------------------------
(* The selection of classifications at the head of                          *)
(* get_required_classifications, for any header row and any directive       *)

HeaderChoices ==
    { None, PyInt(1), PyStr(<< "A","G","E","_","2","A" >>), PyStr(<< "A","G","E"," ","4","A" >>),
      PyStr(<< " ","R","e","t","u","r","n"," ","T","o"," ","I","n","d","e","x" >>),
      PyStr(<< "N","O"," ","C","O","D","E"," ","R","E","Q","U","I","R","E","D" >>) }

DirectiveChoices ==
    { PyStr(ALL), PyStr(<< "2","A",","," ","4","A" >>), PyStr(<< "4","A" >>), PyStr(<< "2","A","," >>), None }

InitCls ==
    /\ cls_header \in SeqsOf(HeaderChoices, 1, MaxCols)
    /\ required_cls_str \in DirectiveChoices
    /\ cls_col_indices = << >>
    /\ required_cls_col_indices = << >>
    /\ stdout = << >>
    /\ pc = "get_classification_column_indices"
    /\ fault = None
    /\ IdleFlags /\ IdleTopics /\ IdleCat /\ IdleMain

\* cls_col_indices = get_classification_column_indices(cls_ws)
ClsColumnIndices ==
    /\ pc = "get_classification_column_indices"
    /\ cls_col_indices' = get_classification_column_indices(cls_header)
    /\ pc' = "filter_required_classifications"
    /\ UNCHANGED << cls_header, required_cls_str, required_cls_col_indices, stdout, fault >>
    /\ UNCHANGED << flagVars, topicVars, catVars, mainVars >>

\* required_cls_col_indices = filter_required_classifications(cls_col_indices, config_row)
ClsFilterReturns ==
    /\ pc = "filter_required_classifications"
    /\ LET r == filter_required_classifications(cls_col_indices, required_cls_str)
       IN  /\ r.ok
           /\ required_cls_col_indices' = r.val
    /\ pc' = "done"
    /\ UNCHANGED << cls_header, required_cls_str, cls_col_indices, stdout, fault >>
    /\ UNCHANGED << flagVars, topicVars, catVars, mainVars >>

\* required_cls_str.split(",") on a cell without a string
ClsFilterRaises ==
    /\ pc = "filter_required_classifications"
    /\ LET r == filter_required_classifications(cls_col_indices, required_cls_str)
       IN  /\ ~r.ok
           /\ fault' = r.exc
    /\ pc' = "raised"
    /\ UNCHANGED << cls_header, required_cls_str, cls_col_indices, required_cls_col_indices, stdout >>
    /\ UNCHANGED << flagVars, topicVars, catVars, mainVars >>

NextCls == ClsColumnIndices \/ ClsFilterReturns \/ ClsFilterRaises

SpecCls == InitCls /\ [][NextCls]_vars

\* The header columns holding a string that is no placeholder
ClassificationColumns ==
    { k \in 1..Len(cls_header) :
        /\ cls_header[k].t = "str"
        /\ \A n \in 1..Len(NOT_DATA) :
               Strip(Lower(cls_header[k].s)) # Strip(Lower(NOT_DATA[n])) }

\* C7: under the directive `all` the selected classifications are exactly the
\* header cells holding a string that matches no placeholder (case and outer
\* whitespace aside), one per header column, in left-to-right order.
C7_AllKeepsEveryClassification ==
    (pc = "done" /\ required_cls_str = PyStr(ALL)) =>
        /\ Len(required_cls_col_indices) = Cardinality(ClassificationColumns)
        /\ \A n \in 1..Len(required_cls_col_indices) :
               LET c == required_cls_col_indices[n]
               IN  /\ c.cat_codes_col + 1 \in ClassificationColumns
                   /\ c.cls_code = cls_header[c.cat_codes_col + 1].s
                   /\ c.cat_name_col = c.cat_codes_col + 1
        /\ \A m, n \in 1..Len(required_cls_col_indices) :
               m < n => required_cls_col_indices[m].cat_codes_col
                            < required_cls_col_indices[n].cat_codes_col

\* `all` over a header with a placeholder and two classification codes
C7_Witness ==
    /\ pc = "done" /\ required_cls_str = PyStr(ALL)
    /\ Len(cls_header) = 3
    /\ cls_header[2] = PyStr(<< " ","R","e","t","u","r","n"," ","T","o"," ","I","n","d","e","x" >>)
    /\ Len(required_cls_col_indices) = 2
    /\ required_cls_col_indices[1].cls_code = << "A","G","E"," ","4","A" >>
    /\ required_cls_col_indices[2].cls_code = << "A","G","E","_","2","A" >>

\* The suffixes a directive lists: its comma-separated entries, trimmed
ListedSuffixes(directive) ==
    { Strip(Split(directive, ",")[k]) : k \in 1..Len(Split(directive, ",")) } \ { << >> }

\* C8: under a directive listing suffixes, a classification is selected only
\* if its code ends in one of the listed suffixes, whatever the spacing or
\* trailing commas of the directive.
C8_OnlyListedSuffixes ==
    (pc = "done" /\ required_cls_str # PyStr(ALL)) =>
        \A n \in 1..Len(required_cls_col_indices) :
            \E suffix \in ListedSuffixes(required_cls_str.s) :
                EndsWith(required_cls_col_indices[n].cls_code, suffix)

-----------------------------------------------------------------------------
(* get_required_classifications as a whole, for the visualisation flags *)

\* A worksheet whose classification codes end in "NO" and in "5A"
WS_CARS ==
    << << Plain(PyStr(<< "C","A","R","S","_","N","O" >>)), Cell(PyInt(0), LeftBorder) >>,
       << Plain(None), Cell(PyStr(<< "N","o"," ","c","a","r","s" >>), RightBorder) >>,
       << Plain(PyStr(<< "C","A","R","S","_","5","A" >>)), Cell(PyStr(<< "1","-","2" >>), LeftBorder) >>,
       << Plain(None), Cell(PyStr(<< "1"," ","o","r"," ","2" >>), RightBorder) >> >>

FlagWorksheetChoices == { WS_AGE_5YR, WS_SEX, WS_CARS, WS_BAD }

ChoroplethChoices ==
    { PyStr(<< "2","A"," ","(","o","n","l","y"," ","o","n","e"," ","c","l","a","s","s","i","f","i","c","a","t","i","o","n",")" >>), PyStr(<< "(","o","n","l","y"," ","o","n","e"," ","c","l","a","s","s","i","f","i","c","a","t","i","o","n",")" >>),
      PyStr(<< " ","3","A"," " >>), PyStr(<< "5","A" >>), PyStr(<< "N","O" >>), None }

DotDensityChoices ==
    { PyStr(<< "n","o" >>), PyStr(<< "N","o" >>), PyStr(<< "N","O" >>), PyStr(<< " ","n","o"," " >>), PyStr(<< "3","A"," " >>), PyStr(<< "5","A" >>), None }

InitFlags ==
    /\ flag_ws \in FlagWorksheetChoices
    /\ \E directive \in { PyStr(ALL), PyStr(<< "3","A",","," ","5","A" >>) } :
       \E chorolpleth \in ChoroplethChoices :
       \E dot_density \in DotDensityChoices :
          flag_config_row = ConfigRow(PyStr(<< "A","g","e" >>), Plain(None), directive, chorolpleth, dot_density)
    /\ flag_classifications = << >>
    /\ metadata \in MetadataChoices
    /\ stdout = << >>
    /\ pc = "get_required_classifications"
    /\ fault = None
    /\ config_rows = << >> /\ row = 0 /\ topics = << >>
    /\ name_mnemonic_or_title = None /\ topic_metadata = None /\ topic_variable = None
    /\ cls_header = << >> /\ required_cls_str = None
    /\ cls_col_indices = << >> /\ required_cls_col_indices = << >>
    /\ IdleCat /\ IdleMain

\* return classifications
FlagsReturn ==
    /\ pc = "get_required_classifications"
    /\ LET r == get_required_classifications(flag_ws, flag_config_row, metadata)
       IN  /\ r.ok
           /\ flag_classifications' = r.val
           /\ stdout' = stdout \o r.out
    /\ pc' = "done"
    /\ UNCHANGED << flag_ws, flag_config_row, fault >>
    /\ UNCHANGED << cls_header, required_cls_str, cls_col_indices, required_cls_col_indices >>
    /\ UNCHANGED << topicVars, catVars, mainVars >>

\* a call made by get_required_classifications raises
FlagsRaise ==
    /\ pc = "get_required_classifications"
    /\ LET r == get_required_classifications(flag_ws, flag_config_row, metadata)
       IN  /\ ~r.ok
           /\ fault' = r.exc
           /\ stdout' = stdout \o r.out
    /\ pc' = "raised"
    /\ UNCHANGED << flagVars >>
    /\ UNCHANGED << cls_header, required_cls_str, cls_col_indices, required_cls_col_indices >>
    /\ UNCHANGED << topicVars, catVars, mainVars >>

NextFlags == FlagsReturn \/ FlagsRaise

SpecFlags == InitFlags /\ [][NextFlags]_vars

\* The classification columns get_required_classifications selected, in order
FlagRequired ==
    filter_required_classifications(
        get_classification_column_indices(HeaderValues(flag_ws)),
        flag_config_row.classifications.value).val

\* C14: a classification's choropleth-default flag is set exactly when its
\* code ends with the row's default-classification suffix (the text
\* "(only one classification)" removed, then trimmed); its dot-density flag
\* is set exactly when the row's dot-density value is not "no" in any letter
\* case and the code ends with that value.  So a dot-density value of "no"
\* flags nothing, and no flag is set on a code that lacks the suffix.
C14_FlagsFollowSuffix ==
    pc = "done" =>
        LET suffix == Strip(Replace(flag_config_row.chorolpleth.value.s,
                                    ONLY_ONE_CLASSIFICATION, << >>))
            dot == Strip(flag_config_row.dot_density.value.s)
            IsNo == Len(dot) = 2 /\ dot[1] \in { "n", "N" } /\ dot[2] \in { "o", "O" }
        IN  /\ Len(flag_classifications) = Len(FlagRequired)
            /\ \A k \in 1..Len(flag_classifications) :
                  LET code == FlagRequired[k].cls_code
                      c == flag_classifications[k]
                  IN  /\ c.chorolpleth_default <=> EndsWith(code, suffix)
                      /\ c.dot_density_default <=> (~IsNo /\ EndsWith(code, dot))
                      /\ IsNo => ~c.dot_density_default

\* A dot-density value of "NO" on a worksheet with a code ending in "NO",
\* whose other classification is the choropleth default
C14_Witness ==
    /\ pc = "done"
    /\ flag_ws = WS_CARS
    /\ flag_config_row.dot_density.value = PyStr(<< "N","O" >>)
    /\ flag_config_row.chorolpleth.value = PyStr(<< "5","A" >>)
    /\ Len(flag_classifications) = 2
    /\ ~flag_classifications[1].chorolpleth_default
    /\ flag_classifications[2].chorolpleth_default

-----------------------------------------------------------------------------
(* get_categories, for any pair of columns *)

CodeCellChoices ==
    { Cell(PyStr(<< "0","-","4" >>), LeftBorder),
      Cell(PyStr(<< "5","-","9" >>), LeftBorder),
      Cell(PyStr(<< "1"," ",">"," ","3" >>), RightBorder),
      Cell(PyStr(<< " " >>), LeftBorder),
      Plain(PyStr(<< "0","7" >>)),
      Cell(None, LeftBorder) }

NameCellChoices ==
    { Cell(PyStr(<< "0"," ","t","o"," ","4" >>), RightBorder),
      Cell(PyStr(<< "5"," ","t","o"," ","9" >>), RightBorder),
      Cell(PyStr(<< "D","o","e","s"," ","n","o","t"," ","a","p","p","l","y"," " >>), LeftBorder),
      Cell(PyInt(3), RightBorder),
      Plain(PyStr(<< "N","o","t","e" >>)) }

\* A column: its header cell, then its data cells
Column(header, cells) == << header >> \o cells

InitCat ==
    /\ \E n \in 1..MaxCatRows :
          /\ cat_codes_col \in { Column(Plain(PyStr(<< "A","G","E","_","5","A" >>)), cells) :
                                    cells \in [1..n -> CodeCellChoices] }
          /\ cat_name_col \in { Column(Plain(None), cells) :
                                    cells \in [1..n -> NameCellChoices] }
    /\ cat_result = None
    /\ stdout = << >>
    /\ pc = "get_categories"
    /\ fault = None
    /\ IdleRanges /\ IdleExtract /\ IdleSheet
    /\ IdleTopics /\ IdleCls /\ IdleMain

\* if cat_code_cell_indices != cat_name_cell_indices: raise Exception(error_str)
GetCategoriesMismatch ==
    /\ pc = "get_categories"
    /\ get_category_cell_indices(cat_codes_col) # get_category_cell_indices(cat_name_col)
    /\ fault' = get_categories(cat_codes_col, cat_name_col).exc
    /\ pc' = "raised"
    /\ UNCHANGED << cat_codes_col, cat_name_col, cat_result, stdout >>
    /\ UNCHANGED << parseVars, topicVars, clsVars, mainVars >>

\* an iteration of the for-loop raises (a name that is no string, an empty code)
GetCategoriesLoopRaises ==
    /\ pc = "get_categories"
    /\ get_category_cell_indices(cat_codes_col) = get_category_cell_indices(cat_name_col)
    /\ ~get_categories(cat_codes_col, cat_name_col).ok
    /\ fault' = get_categories(cat_codes_col, cat_name_col).exc
    /\ pc' = "raised"
    /\ UNCHANGED << cat_codes_col, cat_name_col, cat_result, stdout >>
    /\ UNCHANGED << parseVars, topicVars, clsVars, mainVars >>

\* return categories
GetCategoriesReturns ==
    /\ pc = "get_categories"
    /\ get_categories(cat_codes_col, cat_name_col).ok
    /\ cat_result' = get_categories(cat_codes_col, cat_name_col).val
    /\ pc' = "done"
    /\ UNCHANGED << cat_codes_col, cat_name_col, stdout, fault >>
    /\ UNCHANGED << parseVars, topicVars, clsVars, mainVars >>

NextCat == GetCategoriesMismatch \/ GetCategoriesLoopRaises \/ GetCategoriesReturns

SpecCat == InitCat /\ [][NextCat]_vars

\* The rows of a column, from the second down, that are populated and carry
\* a left or right border (1-based worksheet rows)
BorderedRows(col) ==
    { r \in 2..Len(col) :
        /\ col[r].value.t # "None"
        /\ (col[r].border.left = "thin" \/ col[r].border.right = "thin") }

\* C3: when the bordered, populated rows of the code and name columns differ,
\* get_categories raises, and its message names the differing rows: the list
\* is not empty, also when the name column has rows the code column lacks.
C3_MismatchNamesDifferingRows ==
    (pc # "get_categories" /\ BorderedRows(cat_codes_col) # BorderedRows(cat_name_col)) =>
        /\ pc = "raised"
        /\ fault.type = "Exception"
        /\ fault.cells # {}

\* C4: the bordered rows ("0-4", "0 to 4") and ("5-9", "5 to 9") give the
\* composite codes "0-to-4=0-4" and "5-to-9=5-9".
C4_ExampleCompositeCodes ==
    ( /\ pc # "get_categories"
      /\ cat_codes_col = Column(Plain(PyStr(<< "A","G","E","_","5","A" >>)),
                                << Cell(PyStr(<< "0","-","4" >>), LeftBorder), Cell(PyStr(<< "5","-","9" >>), LeftBorder) >>)
      /\ cat_name_col = Column(Plain(None),
                               << Cell(PyStr(<< "0"," ","t","o"," ","4" >>), RightBorder), Cell(PyStr(<< "5"," ","t","o"," ","9" >>), RightBorder) >>) )
    => /\ pc = "done"
       /\ Len(cat_result) = 2
       /\ cat_result[1].code = << "0","-","t","o","-","4","=","0","-","4" >>
       /\ cat_result[2].code = << "5","-","t","o","-","9","=","5","-","9" >>

\* The rows (1-based, top to bottom) that are to yield a category: bordered
\* and populated, from the second row down, with a name outside NOT_DATA
CategoryRows(codes_col, name_col) ==
    SelectSeq([r \in 1..Len(name_col) |-> r],
              LAMBDA r : /\ r \in BorderedRows(codes_col)
                         /\ ~(IsStr(name_col[r].value)
                              /\ cmp_string_to_list(name_col[r].value.s, NOT_DATA)))

\* C12: when the bordered-row sets of the two columns agree, get_categories
\* returns one Category for each bordered, populated row from the second row
\* down whose name is no placeholder, in top-to-bottom order, and none for
\* the header row.
C12_OneCategoryPerDataRow ==
    (pc # "get_categories" /\ BorderedRows(cat_codes_col) = BorderedRows(cat_name_col)) =>
        /\ pc = "done"
        /\ LET rows == CategoryRows(cat_codes_col, cat_name_col)
           IN  /\ Len(cat_result) = Len(rows)
               /\ \A k \in 1..Len(rows) :
                     cat_result[k].name = ToStr(cat_name_col[rows[k]].value)

-----------------------------------------------------------------------------
(* categories_to_content_json.py *)

\* Order of the characters, by code point
CharOrder ==
    << " ", "!", "'", "(", ")", ",", "-", ".", "/",
       "0","1","2","3","4","5","6","7","8","9", "=", ">",
       "A","B","C","D","E","F","G","H","I","J","K","L","M",
       "N","O","P","Q","R","S","T","U","V","W","X","Y","Z", "_",
       "a","b","c","d","e","f","g","h","i","j","k","l","m",
       "n","o","p","q","r","s","t","u","v","w","x","y","z" >>
Ord(c) == CHOOSE i \in 1..Len(CharOrder) : CharOrder[i] = c

\* a < b for two strings
StrLess(a, b) ==
    \E i \in 1..(Len(b)) :
        /\ \A j \in 1..(i - 1) : j <= Len(a) /\ a[j] = b[j]
        /\ (i > Len(a) \/ Ord(a[i]) < Ord(b[i]))

\* sorted(S) for a set of strings
RECURSIVE Sorted(_)
Sorted(S) ==
    IF S = {} THEN << >>
    ELSE LET least == CHOOSE x \in S : \A y \in S \ { x } : StrLess(x, y)
         IN  << least >> \o Sorted(S \ { least })

\* get_topics of categories_to_content_json.py
cc_get_topics(variables) ==
    Sorted({ variables[k].metadata.Topic_Area : k \in 1..Len(variables) })

\* summarise_category
summarise_category(category) ==
    [name |-> category.name, slug |-> slugify(category.name), codes |-> category.codes,
     desc |-> "TODO", category_h_pt2 |-> "TODO", category_h_pt3 |-> "TODO"]

\* summarise_classification: next(filter(...)) raises StopIteration on a miss
summarise_classification(classification, am) ==
    LET hits == Found(am.classifications,
                    LAMBDA x : x.Classification_Mnemonic
                                   = Lower(classification.classification_code))
    IN  IF Len(hits) = 0 THEN Raise(Exc("StopIteration"), << >>)
        ELSE Return([code |-> classification.classification_code,
                     desc |-> hits[1].External_Classification_Label_English,
                     categories |-> [k \in 1..Len(classification.categories) |->
                                        summarise_category(classification.categories[k])],
                     default |-> classification.default], << >>)

\* summarise_variable: next(filter(...)) raises StopIteration on a miss
summarise_variable(variable, am) ==
    LET md == variable.metadata
        hits == Found(am.variables,
                    LAMBDA x : x.Variable_Mnemonic = Lower(md.Mnemonic_2021))
        cls == [k \in 1..Len(variable.classifications) |->
                   summarise_classification(variable.classifications[k], am)]
    IN  IF Len(hits) = 0 THEN Raise(Exc("StopIteration"), << >>)
        ELSE IF \E k \in 1..Len(cls) : ~cls[k].ok THEN Raise(Exc("StopIteration"), << >>)
        ELSE Return([name |-> md.Description,
                     slug |-> slugify(md.Description),
                     code |-> md.Mnemonic_2021,
                     desc |-> hits[1].Variable_Description,
                     dataset |-> md.Dataset,
                     units |-> hits[1].Statistical_Unit,
                     classifications |-> [k \in 1..Len(cls) |-> cls[k].val]], << >>)

\* get_vars_by_topic
get_vars_by_topic(topic, variables, am) ==
    LET mine == SelectSeq(variables, LAMBDA v : v.metadata.Topic_Area = topic)
        sums == [k \in 1..Len(mine) |-> summarise_variable(mine[k], am)]
    IN  IF \E k \in 1..Len(sums) : ~sums[k].ok THEN Raise(Exc("StopIteration"), << >>)
        ELSE Return([k \in 1..Len(sums) |-> sums[k].val], << >>)

\* The files load_additional_metadata opens, in the order it opens them
METADATA_FILES == << "Topic.csv", "Variable.csv", "Classification.csv", "Category.csv" >>

\* load_additional_metadata / load_metadata: a missing file raises
load_additional_metadata(fs) ==
    IF \E k \in 1..Len(METADATA_FILES) : METADATA_FILES[k] \notin DOMAIN fs
    THEN Raise(Exc("FileNotFoundError"), << >>)
    ELSE Return([topics |-> fs["Topic.csv"], variables |-> fs["Variable.csv"],
                 classifications |-> fs["Classification.csv"],
                 categories |-> fs["Category.csv"]], << >>)

-----------------------------------------------------------------------------
(* make_atlas_content_json.py: load_config_rows_from_config_sheet *)

CONFIG_WORKSHEET == << "I","N","D","E","X","-","f","i","l","t","e","r","e","d" >>
TOPIC_NAME_COLUMN == << "T","o","p","i","c"," ","A","r","e","a","(","s",")" >>
VAR_HYPERLINK_COLUMN == << "2","0","2","1"," ","M","n","e","m","o","n","i","c"," ","(","v","a","r","i","a","b","l","e",")" >>
CLASSIFICATIONS_TO_INCLUDE_COLUMN == << "C","l","a","s","s","i","f","i","c","a","t","i","o","n","s"," ","t","o"," ","k","e","e","p" >>
CHOROLPLETH_DEFAULT_CLASS_COLUMN == << "D","e","f","a","u","l","t"," ","c","l","a","s","s","i","f","i","c","a","t","i","o","n" >>
DOT_DENSITY_DEFAULT_CLASS_COLUMN == << "D","o","t"," ","d","e","n","s","i","t","y"," ","c","l","a","s","s","i","f","i","c","a","t","i","o","n" >>

\* row_dict[colname]: the cell of the last column of that name; KeyError
\* (here None) when the header row has no such column
RowDictGet(colnames, cells, colname) ==
    LET at == { k \in 1..Len(colnames) : colnames[k] = PyStr(colname) }
    IN  IF at = {} THEN None ELSE cells[Max(at)]

\* load_config_rows_from_config_sheet, given the rows of the config sheet
load_config_rows_from_config_sheet(workbook) ==
    IF CONFIG_WORKSHEET \notin DOMAIN workbook THEN Raise(Exc("KeyError"), << >>)
    ELSE LET rows == workbook[CONFIG_WORKSHEET]
             colnames == [k \in 1..Len(rows[1]) |-> rows[1][k].value]
             row_dicts == SelectSeq(Tail(rows),
                              LAMBDA r : ~(\A k \in 1..Len(r) : r[k].value = None))
             needed == << TOPIC_NAME_COLUMN, VAR_HYPERLINK_COLUMN,
                          CLASSIFICATIONS_TO_INCLUDE_COLUMN,
                          CHOROLPLETH_DEFAULT_CLASS_COLUMN,
                          DOT_DENSITY_DEFAULT_CLASS_COLUMN >>
         IN  IF /\ Len(row_dicts) > 0
                /\ \E n \in 1..Len(needed) : RowDictGet(colnames, rows[1], needed[n]) = None
             THEN Raise(Exc("KeyError"), << >>)
             ELSE Return([k \in 1..Len(row_dicts) |->
                            [topic |-> RowDictGet(colnames, row_dicts[k], TOPIC_NAME_COLUMN).value,
                             variable |-> RowDictGet(colnames, row_dicts[k], VAR_HYPERLINK_COLUMN),
                             classifications |->
                                 RowDictGet(colnames, row_dicts[k], CLASSIFICATIONS_TO_INCLUDE_COLUMN),
                             chorolpleth_default_classification |->
                                 RowDictGet(colnames, row_dicts[k], CHOROLPLETH_DEFAULT_CLASS_COLUMN),
                             dot_density_default_classification |->
                                 RowDictGet(colnames, row_dicts[k], DOT_DENSITY_DEFAULT_CLASS_COLUMN)]],
                         << >>)

-----------------------------------------------------------------------------
(* main() of the two scripts, from the command line to the output file *)

\* Variable.csv and Classification.csv as load_additional_metadata reads them
AmVariables ==
    << [Variable_Mnemonic |-> << "a","g","e" >>, Variable_Description |-> << "A","g","e"," ","o","f"," ","p","e","r","s","o","n" >>,
        Statistical_Unit |-> << "P","e","r","s","o","n" >>] >>
AmClassifications ==
    << [Classification_Mnemonic |-> << "a","g","e","_","5","a" >>,
        External_Classification_Label_English |-> << "A","g","e"," ","(","5",")" >>] >>

JsonClassification(code) ==
    [classification_code |-> code,
     categories |-> << [name |-> << "0"," ","t","o"," ","4" >>, codes |-> << 0, 1, 2, 3, 4 >>] >>,
     default |-> TRUE]
JsonVariable(topic, mnemonic, code) ==
    [metadata |-> [Topic_Area |-> topic, Mnemonic_2021 |-> mnemonic,
                   Description |-> mnemonic, Dataset |-> << "D","1" >>],
     classifications |-> << JsonClassification(code) >>]

\* Entries of the input json: one in both tables, one whose variable and
\* one whose classification is in neither
JsonVariableChoices ==
    { JsonVariable(<< "A","g","e" >>, << "A","G","E" >>, << "A","G","E","_","5","A" >>),
      JsonVariable(<< "S","e","x" >>, << "S","E","X" >>, << "A","G","E","_","5","A" >>),
      JsonVariable(<< "W","o","r","k" >>, << "A","G","E" >>, << "J","O","B","_","2","A" >>) }

\* The files of a run of categories_to_content_json.py
CcFiles(present, variables) ==
    [n \in present |->
        CASE n = "in.json" -> variables
          [] n = "Variable.csv" -> AmVariables
          [] n = "Classification.csv" -> AmClassifications
          [] OTHER -> << >>]

CcAllFiles == { "in.json", "Topic.csv", "Variable.csv", "Classification.csv", "Category.csv" }
CcPresentChoices ==
    { CcAllFiles, CcAllFiles \ { "in.json" }, CcAllFiles \ { "Topic.csv" },
      CcAllFiles \ { "Category.csv" } }

\* Config sheets of a workbook: header row, then index rows (one is blank)
IndexHeader ==
    << Plain(PyStr(TOPIC_NAME_COLUMN)), Plain(PyStr(VAR_HYPERLINK_COLUMN)),
       Plain(PyStr(CLASSIFICATIONS_TO_INCLUDE_COLUMN)),
       Plain(PyStr(CHOROLPLETH_DEFAULT_CLASS_COLUMN)),
       Plain(PyStr(DOT_DENSITY_DEFAULT_CLASS_COLUMN)) >>
IndexRow ==
    << Plain(PyStr(<< "A","g","e" >>)), Link(PyStr(<< "A","g","e" >>), << "'","A","G","E","_","5","Y","R","'","!","A","1" >>), Plain(PyStr(ALL)),
       Plain(PyStr(<< "5","A" >>)), Plain(PyStr(NO)) >>
BlankRow == << Plain(None), Plain(None), Plain(None), Plain(None), Plain(None) >>

WorkbookChoices ==
    { (CONFIG_WORKSHEET :> << IndexHeader, IndexRow, BlankRow, IndexRow >>),
      (CONFIG_WORKSHEET :> << SubSeq(IndexHeader, 1, 4), SubSeq(IndexRow, 1, 4) >>),
      (<< "I","N","D","E","X" >> :> << IndexHeader, IndexRow >>) }

AtlasFilesChoices ==
    { [n \in {} |-> << >>] } \cup { [n \in { "workbook.xlsx" } |-> w] : w \in WorkbookChoices }

Absent == [exists |-> FALSE, content |-> << >>]
Truncated == [exists |-> TRUE, content |-> << >>]
Written(document) == [exists |-> TRUE, content |-> document]
OutputFileChoices == { Absent, Written(<< [name |-> << "o","l","d" >>] >>) }

InitMain ==
    /\ prog \in { "categories_to_content_json", "make_atlas_content_json" }
    /\ IF prog = "categories_to_content_json"
       THEN /\ \E present \in CcPresentChoices :
                 \E variables \in SeqsOf(JsonVariableChoices, 0, MaxVars) :
                     files = CcFiles(present, variables)
            /\ pc = "json_load"
       ELSE /\ files \in AtlasFilesChoices
            /\ pc = "load_workbook"
    /\ wb = None
    /\ json_variables = << >>
    /\ additional_metadata = None
    /\ result = << >>
    /\ output_file0 \in OutputFileChoices
    /\ output_file = output_file0
    /\ stdout = << >>
    /\ fault = None
    /\ IdleTopics /\ IdleCls /\ IdleCat

\* with open(sys.argv[1], "r") as f: variables = json.load(f)
CcLoadVariables ==
    /\ prog = "categories_to_content_json" /\ pc = "json_load"
    /\ IF "in.json" \in DOMAIN files
       THEN /\ json_variables' = files["in.json"]
            /\ pc' = "load_additional_metadata"
            /\ UNCHANGED fault
       ELSE /\ fault' = Exc("FileNotFoundError")
            /\ pc' = "raised"
            /\ UNCHANGED json_variables
    /\ UNCHANGED << prog, files, wb, additional_metadata, result, output_file, output_file0 >>
    /\ UNCHANGED << topicVars, stdout, clsVars, catVars >>

\* additional_metadata = load_additional_metadata()
CcLoadAdditionalMetadata ==
    /\ prog = "categories_to_content_json" /\ pc = "load_additional_metadata"
    /\ LET r == load_additional_metadata(files)
       IN  IF r.ok
           THEN /\ additional_metadata' = r.val
                /\ pc' = "get_topics"
                /\ UNCHANGED fault
           ELSE /\ fault' = r.exc
                /\ pc' = "raised"
                /\ UNCHANGED additional_metadata
    /\ UNCHANGED << prog, files, wb, json_variables, result, output_file, output_file0 >>
    /\ UNCHANGED << topicVars, stdout, clsVars, catVars >>

\* main with the destination opened for writing before the result is built
CcGetTopics_opens_output ==
    /\ prog = "categories_to_content_json" /\ pc = "get_topics"
    /\ topics' = cc_get_topics(json_variables)
    /\ output_file' = Truncated
    /\ pc' = "result"
    /\ UNCHANGED << config_rows, metadata, row, name_mnemonic_or_title,
                    topic_metadata, topic_variable >>
    /\ UNCHANGED << prog, files, wb, json_variables, additional_metadata, result, output_file0 >>
    /\ UNCHANGED << stdout, fault, clsVars, catVars >>

\* topics = get_topics(variables)
CcGetTopics ==
    /\ prog = "categories_to_content_json" /\ pc = "get_topics"
    /\ topics' = cc_get_topics(json_variables)
    /\ pc' = "result"
    /\ UNCHANGED << config_rows, metadata, row, name_mnemonic_or_title,
                    topic_metadata, topic_variable >>
    /\ UNCHANGED << mainVars, stdout, fault, clsVars, catVars >>

\* result = [{...} for topic in topics]: the element for the next topic
CcResultElement ==
    /\ prog = "categories_to_content_json" /\ pc = "result"
    /\ Len(result) < Len(topics)
    /\ LET topic == topics[Len(result) + 1]
           r == get_vars_by_topic(topic, json_variables, additional_metadata)
       IN  IF r.ok
           THEN /\ result' = Append(result, [name |-> topic, slug |-> slugify(topic),
                                             desc |-> "TODO desc", variables |-> r.val])
                /\ UNCHANGED << pc, fault >>
           ELSE /\ fault' = r.exc
                /\ pc' = "raised"
                /\ UNCHANGED result
    /\ UNCHANGED << prog, files, wb, json_variables, additional_metadata,
                    output_file, output_file0 >>
    /\ UNCHANGED << topicVars, stdout, clsVars, catVars >>

\* with open(sys.argv[2], "w") as f:
CcOpenOutput ==
    /\ prog = "categories_to_content_json" /\ pc = "result"
    /\ Len(result) = Len(topics)
    /\ output_file' = Truncated
    /\ pc' = "json_dump"
    /\ UNCHANGED << prog, files, wb, json_variables, additional_metadata, result, output_file0 >>
    /\ UNCHANGED << topicVars, stdout, fault, clsVars, catVars >>

\* json.dump(result, f)
CcJsonDump ==
    /\ prog = "categories_to_content_json" /\ pc = "json_dump"
    /\ output_file' = Written(result)
    /\ pc' = "done"
    /\ UNCHANGED << prog, files, wb, json_variables, additional_metadata, result, output_file0 >>
    /\ UNCHANGED << topicVars, stdout, fault, clsVars, catVars >>

\* wb = load_workbook(workbook_filename)
AtlasLoadWorkbook ==
    /\ prog = "make_atlas_content_json" /\ pc = "load_workbook"
    /\ IF "workbook.xlsx" \in DOMAIN files
       THEN /\ wb' = files["workbook.xlsx"]
            /\ pc' = "load_config_rows_from_config_sheet"
            /\ UNCHANGED fault
       ELSE /\ fault' = Exc("FileNotFoundError")
            /\ pc' = "raised"
            /\ UNCHANGED wb
    /\ UNCHANGED << prog, files, json_variables, additional_metadata, result,
                    output_file, output_file0 >>
    /\ UNCHANGED << topicVars, stdout, clsVars, catVars >>

\* config_rows = load_config_rows_from_config_sheet(wb); the rest of main is
\* commented out, so main returns here
AtlasLoadConfigRows ==
    /\ prog = "make_atlas_content_json" /\ pc = "load_config_rows_from_config_sheet"
    /\ LET r == load_config_rows_from_config_sheet(wb)
       IN  IF r.ok
           THEN /\ config_rows' = r.val
                /\ pc' = "done"
                /\ UNCHANGED fault
           ELSE /\ fault' = r.exc
                /\ pc' = "raised"
                /\ UNCHANGED config_rows
    /\ UNCHANGED << metadata, row, topics, name_mnemonic_or_title, topic_metadata, topic_variable >>
    /\ UNCHANGED << mainVars, stdout, clsVars, catVars >>

NextMain ==
    \/ CcLoadVariables
    \/ CcLoadAdditionalMetadata
    \/ CcGetTopics
    \/ CcResultElement
    \/ CcOpenOutput
    \/ CcJsonDump
    \/ AtlasLoadWorkbook
    \/ AtlasLoadConfigRows

SpecMain == InitMain /\ [][NextMain]_vars

\* C5: a lookup that finds no row for a code never aborts the run, in the
\* summarise_variable and summarise_classification lookups as elsewhere: no
\* run ends on the exception of a failed lookup.
C5_LookupMissNeverAborts ==
    pc = "raised" => fault.type \in { "FileNotFoundError", "KeyError" }

\* C10: a run that ends with a fault has not created, truncated or written
\* the destination file, and the file is touched only once the whole
\* structure has been built.
C10_NoPartialOutput ==
    /\ pc = "raised" => output_file = output_file0
    /\ output_file # output_file0 =>
           /\ pc \in { "json_dump", "done" }
           /\ Len(result) = Len(cc_get_topics(json_variables))

\* A run that had built the first topic failed on the second, and the
\* destination file of an earlier run is as it was
C10_Witness ==
    /\ pc = "raised"
    /\ fault = Exc("StopIteration")
    /\ Len(result) = 1
    /\ output_file0.exists
    /\ output_file = output_file0

-----------------------------------------------------------------------------
(* make_atlas_content_json.py: the to_jsonable methods, applied to what     *)
(* get_topics returned                                                      *)

\* CensusCategory.to_jsonable
CensusCategory_to_jsonable(c) == [name |-> c.name, slug |-> c.slug, code |-> c.code]

\* CensusClassification.to_jsonable: a flag is written only when it is set
CensusClassification_to_jsonable(c) ==
    LET cats == [k \in 1..Len(c.categories) |-> CensusCategory_to_jsonable(c.categories[k])]
    IN  CASE c.chorolpleth_default /\ c.dot_density_default ->
               [code |-> c.code, slug |-> c.slug, desc |-> c.desc,
                chorolpleth_default |-> TRUE, dot_density_default |-> TRUE, categories |-> cats]
          [] c.chorolpleth_default /\ ~c.dot_density_default ->
               [code |-> c.code, slug |-> c.slug, desc |-> c.desc,
                chorolpleth_default |-> TRUE, categories |-> cats]
          [] ~c.chorolpleth_default /\ c.dot_density_default ->
               [code |-> c.code, slug |-> c.slug, desc |-> c.desc,
                dot_density_default |-> TRUE, categories |-> cats]
          [] OTHER ->
               [code |-> c.code, slug |-> c.slug, desc |-> c.desc, categories |-> cats]

\* CensusVariable.to_jsonable
CensusVariable_to_jsonable(v) ==
    [name |-> v.name, code |-> v.code, slug |-> v.slug, desc |-> v.desc, units |-> v.units,
     classifications |-> [k \in 1..Len(v.classifications) |->
                             CensusClassification_to_jsonable(v.classifications[k])]]

\* CensusTopic.to_jsonable: v.to_jsonable() on None raises AttributeError
CensusTopic_to_jsonable(t) ==
    IF \E k \in 1..Len(t.variables) : t.variables[k] = None
    THEN Raise(Exc("AttributeError"), << >>)
    ELSE Return([name |-> t.name, slug |-> t.slug, desc |-> t.desc,
                 variables |-> [k \in 1..Len(t.variables) |->
                                   CensusVariable_to_jsonable(t.variables[k])]], << >>)

\* sorted(ts, key = lambda x: x.name): stable, ascending by code point
RECURSIVE SortedByName(_)
SortedByName(ts) ==
    IF ts = << >> THEN << >>
    ELSE LET front == SortedByName(SubSeq(ts, 1, Len(ts) - 1))
             x == ts[Len(ts)]
             n == Cardinality({ k \in 1..Len(front) : ~StrLess(x.name, front[k].name) })
         IN  SubSeq(front, 1, n) \o << x >> \o SubSeq(front, n + 1, Len(front))

\* AllTopics.to_jsonable with the topics left in the order they were accumulated
AllTopics_to_jsonable_unsorted(ts) ==
    IF \E k \in 1..Len(ts) : ~CensusTopic_to_jsonable(ts[k]).ok
    THEN Raise(Exc("AttributeError"), << >>)
    ELSE Return([k \in 1..Len(ts) |-> CensusTopic_to_jsonable(ts[k]).val], << >>)

\* AllTopics.to_jsonable
AllTopics_to_jsonable(ts) ==
    LET sorted == SortedByName(ts)
    IN  IF \E k \in 1..Len(sorted) : ~CensusTopic_to_jsonable(sorted[k]).ok
        THEN Raise(Exc("AttributeError"), << >>)
        ELSE Return([k \in 1..Len(sorted) |-> CensusTopic_to_jsonable(sorted[k]).val], << >>)

\* to_jsonable() of the AllTopics that get_topics returned
ToJsonableReturns ==
    /\ pc = "done"
    /\ AllTopics_to_jsonable(topics).ok
    /\ result' = AllTopics_to_jsonable(topics).val
    /\ pc' = "to_jsonable"
    /\ UNCHANGED << topicVars, stdout, fault, clsVars, catVars >>
    /\ UNCHANGED << prog, files, wb, json_variables, additional_metadata, output_file, output_file0 >>

\* to_jsonable() raises on a Topic that holds a None variable
ToJsonableRaises ==
    /\ pc = "done"
    /\ ~AllTopics_to_jsonable(topics).ok
    /\ fault' = AllTopics_to_jsonable(topics).exc
    /\ pc' = "raised"
    /\ UNCHANGED << topicVars, stdout, clsVars, catVars, mainVars >>

NextJsonable ==
    \/ Next
    \/ ToJsonableReturns
    \/ ToJsonableRaises

SpecJsonable == Init /\ [][NextJsonable]_vars

-----------------------------------------------------------------------------
(* parse_categories.py: category codes *)

\* The en dash of the source file, written by its code point
EN_DASH == "U+2013"

Contains(s, c) == \E i \in 1..Len(s) : s[i] = c
IsDigits(s) == s # << >> /\ \A i \in 1..Len(s) : s[i] \in DigitChars
DigitValue(c) == CHOOSE d \in 0..9 : DigitSeq[d + 1] = c
RECURSIVE ParseNat(_)
ParseNat(s) ==
    IF s = << >> THEN 0
    ELSE 10 * ParseNat(SubSeq(s, 1, Len(s) - 1)) + DigitValue(s[Len(s)])

\* int(s): surrounding whitespace dropped, an optional sign, then digits;
\* ValueError otherwise (no input of the model holds an underscore)
py_int(s) ==
    LET t == Strip(s)
    IN  IF IsDigits(t) THEN Return(ParseNat(t), << >>)
        ELSE IF Len(t) > 1 /\ t[1] = "-" /\ IsDigits(Tail(t)) THEN Return(0 - ParseNat(Tail(t)), << >>)
        ELSE IF Len(t) > 1 /\ t[1] = "+" /\ IsDigits(Tail(t)) THEN Return(ParseNat(Tail(t)), << >>)
        ELSE Raise(Exc("ValueError"), << >>)

\* [i for i in range(a, b + 1)]
RangeList(a, b) == [k \in 1..(b - a + 1) |-> PyInt(a + k - 1)]

\* expand_range: sep occurs in code, so there are at least two endpoints
expand_range(code, sep) ==
    LET endpoints == Split(code, sep)
        a == py_int(endpoints[1])
        b == py_int(endpoints[2])
    IN  IF ~a.ok THEN a
        ELSE IF ~b.ok THEN b
        ELSE Return(RangeList(a.val, b.val), << >>)

\* The body of the for-loop of with_ranges_expanded: what one code adds to
\* result, or the exception it raises
with_ranges_expanded_code(code) ==
    IF code = << >> THEN Return(<< >>, << >>)
    ELSE IF code[1] = "-"
         THEN IF Contains(Tail(code), "-")
              THEN Raise(Exc("ValueError"), << >>)
              ELSE Return(<< PyStr(code) >>, << >>)
    ELSE IF Contains(code, "-") THEN expand_range(code, "-")
    ELSE IF Contains(code, ">") THEN expand_range(code, ">")
    ELSE IF Contains(code, EN_DASH) THEN expand_range(code, EN_DASH)
    ELSE IF ~(\A i \in 1..Len(code) : code[i] \in DigitChars)
         THEN Raise(Exc("ValueError"), << >>)
         ELSE Return(<< PyInt(ParseNat(code)) >>, << >>)

\* with_ranges_expanded
RECURSIVE with_ranges_expanded(_)
with_ranges_expanded(codes) ==
    IF codes = << >> THEN Return(<< >>, << >>)
    ELSE LET first == with_ranges_expanded_code(Head(codes))
             rest == with_ranges_expanded(Tail(codes))
         IN  IF ~first.ok THEN first
             ELSE IF ~rest.ok THEN rest
             ELSE Return(first.val \o rest.val, << >>)

\* parse_category_codes
parse_category_codes(codes_str) ==
    with_ranges_expanded(Split(Strip(Replace(ToStr(codes_str), << " " >>, << >>)), ","))

-----------------------------------------------------------------------------
(* with_ranges_expanded as a state machine: one step per code *)

MaxCodes == 2

CodeChoices ==
    { << >>, << "7" >>, << "1","-","3" >>, << "3","-","1" >>, << "2",">","3" >>, << "1", EN_DASH, "2" >>,
      << "-","1" >>, << "-","1","-","3" >>, << "-","x" >>, << "1","x" >>, << "1","-" >> }

InitRanges ==
    /\ ps_codes \in SeqsOf(CodeChoices, 0, MaxCodes)
    /\ ps_i = 0
    /\ ps_result = << >>
    /\ stdout = << >>
    /\ pc = "for"
    /\ fault = None
    /\ IdleExtract /\ IdleSheet
    /\ cat_codes_col = << >> /\ cat_name_col = << >> /\ cat_result = None
    /\ IdleTopics /\ IdleCls /\ IdleMain

\* for code in codes: the code the loop is about to process
code == ps_codes[ps_i + 1]

\* One iteration that does not raise
WreIteration ==
    /\ with_ranges_expanded_code(code).ok
    /\ ps_result' = ps_result \o with_ranges_expanded_code(code).val
    /\ ps_i' = ps_i + 1
    /\ UNCHANGED << ps_codes, stdout, pc, fault >>
    /\ UNCHANGED << extractVars, sheetVars, cat_codes_col, cat_name_col, cat_result >>
    /\ UNCHANGED << topicVars, clsVars, mainVars >>

\* One iteration that raises
WreRaise ==
    /\ ~with_ranges_expanded_code(code).ok
    /\ fault' = with_ranges_expanded_code(code).exc
    /\ pc' = "raised"
    /\ UNCHANGED << rangeVars, stdout >>
    /\ UNCHANGED << extractVars, sheetVars, cat_codes_col, cat_name_col, cat_result >>
    /\ UNCHANGED << topicVars, clsVars, mainVars >>

\* if code == '': continue
WreContinue ==
    /\ pc = "for" /\ ps_i < Len(ps_codes)
    /\ code = << >>
    /\ WreIteration

\* elif code.startswith('-'): result.append(code)
WreAppendNegative ==
    /\ pc = "for" /\ ps_i < Len(ps_codes)
    /\ code # << >> /\ code[1] = "-"
    /\ WreIteration

\* raise ValueError("Unexpected range beginning with a negative number: " + code)
WreRaiseNegativeRange ==
    /\ pc = "for" /\ ps_i < Len(ps_codes)
    /\ code # << >> /\ code[1] = "-"
    /\ WreRaise

\* result.extend(expand_range(code, sep))
WreExtend ==
    /\ pc = "for" /\ ps_i < Len(ps_codes)
    /\ code # << >> /\ code[1] # "-"
    /\ \E sep \in { "-", ">", EN_DASH } : Contains(code, sep)
    /\ WreIteration

\* expand_range raises: int() of an endpoint fails
WreExtendRaises ==
    /\ pc = "for" /\ ps_i < Len(ps_codes)
    /\ code # << >> /\ code[1] # "-"
    /\ \E sep \in { "-", ">", EN_DASH } : Contains(code, sep)
    /\ WreRaise

\* result.append(int(code))
WreAppendInt ==
    /\ pc = "for" /\ ps_i < Len(ps_codes)
    /\ code # << >>
    /\ \A sep \in { "-", ">", EN_DASH } : ~Contains(code, sep)
    /\ WreIteration

\* raise ValueError("Unexpected code: " + code)
WreRaiseUnexpected ==
    /\ pc = "for" /\ ps_i < Len(ps_codes)
    /\ code # << >>
    /\ \A sep \in { "-", ">", EN_DASH } : ~Contains(code, sep)
    /\ WreRaise

\* return result
WreReturn ==
    /\ pc = "for" /\ ps_i = Len(ps_codes)
    /\ pc' = "done"
    /\ UNCHANGED << rangeVars, stdout, fault >>
    /\ UNCHANGED << extractVars, sheetVars, cat_codes_col, cat_name_col, cat_result >>
    /\ UNCHANGED << topicVars, clsVars, mainVars >>

NextRanges ==
    \/ WreContinue
    \/ WreAppendNegative
    \/ WreRaiseNegativeRange
    \/ WreExtend
    \/ WreExtendRaises
    \/ WreAppendInt
    \/ WreRaiseUnexpected
    \/ WreReturn

SpecRanges == InitRanges /\ [][NextRanges]_vars

\* The kinds of code the property names
RangeSeparators == { "-", ">", EN_DASH }
IsRangeCode(c) ==
    \E sep \in RangeSeparators :
        /\ Len(Split(c, sep)) = 2
        /\ IsDigits(Split(c, sep)[1]) /\ IsDigits(Split(c, sep)[2])
IsNegativeNumber(c) == Len(c) > 1 /\ c[1] = "-" /\ IsDigits(Tail(c))
IsNegativeRange(c) == Len(c) > 1 /\ c[1] = "-" /\ Contains(Tail(c), "-")
HasOtherCharacter(c) == \E i \in 1..Len(c) : c[i] \notin (DigitChars \cup RangeSeparators)
MustFail(c) == IsNegativeRange(c) \/ HasOtherCharacter(c)
IsNamedCode(c) ==
    c = << >> \/ IsRangeCode(c) \/ IsDigits(c) \/ IsNegativeNumber(c) \/ MustFail(c)

\* What a code that must not fail contributes
Contribution(c) ==
    IF c = << >> THEN << >>
    ELSE IF IsDigits(c) THEN << PyInt(ParseNat(c)) >>
    ELSE IF IsNegativeNumber(c) THEN << PyStr(c) >>
    ELSE LET sep == CHOOSE x \in RangeSeparators : Len(Split(c, x)) = 2
         IN  RangeList(ParseNat(Split(c, sep)[1]), ParseNat(Split(c, sep)[2]))

RECURSIVE Contributions(_)
Contributions(cs) ==
    IF cs = << >> THEN << >> ELSE Contribution(Head(cs)) \o Contributions(Tail(cs))

\* C17: with_ranges_expanded returns, in input order, nothing for an empty
\* string, the integers a..b ascending for a range "a-b" (also with '>' or an
\* en dash), the integer for a digit string and the string itself for a single
\* negative number; a range beginning with a negative number, or a code with
\* any other character, makes the call raise ValueError instead.
C17_RangesExpanded ==
    (pc \in { "done", "raised" } /\ \A k \in 1..Len(ps_codes) : IsNamedCode(ps_codes[k])) =>
        IF \E k \in 1..Len(ps_codes) : MustFail(ps_codes[k])
        THEN pc = "raised" /\ fault.type = "ValueError"
        ELSE pc = "done" /\ ps_result = Contributions(ps_codes)

-----------------------------------------------------------------------------
(* parse_categories.py: extract_categories.  A worksheet is a sequence of   *)
(* columns, a column a function from the rows that hold a cell to the       *)
(* cell's value; every other cell is empty.                                 *)

\* while row < 1000
ROW_LIMIT == 1000

\* sheet.cell(row, column).value
CellValue(sheet, r, c) ==
    IF c \in 1..Len(sheet) /\ r \in DOMAIN sheet[c] THEN sheet[c][r] ELSE None

\* re.search('^[-0-9]', str(val))
StartsWithCode(val) ==
    LET str == ToStr(val)
    IN  str # << >> /\ (str[1] = "-" \/ str[1] \in DigitChars)

\* found_categories set once a category has been appended
found_categories_set == ps_categories # << >>

\* found_categories = False, and no statement assigns it again
found_categories == FALSE

\* The rows of a column the loop reads, top to bottom
ExaminedRows == [k \in 1..(ROW_LIMIT - 2) |-> k + 1]

\* extract_categories
extract_categories(sheet, column) ==
    LET cats == SelectSeq(ExaminedRows, LAMBDA r : StartsWithCode(CellValue(sheet, r, column)))
        extras == SelectSeq(ExaminedRows,
                            LAMBDA r : /\ ~StartsWithCode(CellValue(sheet, r, column))
                                       /\ CellValue(sheet, r, column) # None)
    IN  IF \E k \in 1..Len(cats) : ~parse_category_codes(CellValue(sheet, cats[k], column)).ok
        THEN Raise(Exc("ValueError"), << >>)
        ELSE Return([extra_strings |-> [k \in 1..Len(extras) |->
                                           ToStr(CellValue(sheet, extras[k], column))],
                     categories |-> [k \in 1..Len(cats) |->
                                        [codes |-> parse_category_codes(
                                                       CellValue(sheet, cats[k], column)).val,
                                         name |-> CellValue(sheet, cats[k], column + 1)]]],
                    << >>)

-----------------------------------------------------------------------------
(* extract_categories as a state machine: one step per row *)

MaxSheetRows == 2

ExtractCellChoices ==
    { None, PyInt(7), PyStr(<< "1",","," ","3","-","4" >>), PyStr(<< "T","o","t","a","l" >>), PyStr(<< "1","x" >>) }

\* A column with its header in row 1, cells in the rows below it and one
\* more cell far down
ColumnOf(header, cells, last_row, last) ==
    (1 :> header) @@ [r \in 2..(Len(cells) + 1) |-> cells[r - 1]] @@ (last_row :> last)

InitExtract ==
    /\ \E cells \in SeqsOf(ExtractCellChoices, 1, MaxSheetRows) :
       \E last_row \in { ROW_LIMIT - 1, ROW_LIMIT } :
          ps_sheet = << ColumnOf(PyStr(<< "A","G","E","_","5","A" >>), cells, last_row, PyInt(9)),
                        ColumnOf(None, [k \in 1..Len(cells) |-> PyStr(<< "n","a","m","e" >>)],
                                 last_row, PyStr(<< "l","a","s","t" >>)) >>
    /\ ps_column = 1
    /\ ps_row = 2
    /\ ps_extra_strings = << >>
    /\ ps_categories = << >>
    /\ ps_seen = 0
    /\ stdout = << >>
    /\ pc = "while"
    /\ fault = None
    /\ IdleRanges /\ IdleSheet
    /\ cat_codes_col = << >> /\ cat_name_col = << >> /\ cat_result = None
    /\ IdleTopics /\ IdleCls /\ IdleMain

\* val = sheet.cell(row, column).value
val == CellValue(ps_sheet, ps_row, ps_column)

\* if re.search('^[-0-9]', str(val)): categories.append(...); row += 1
ExtractCategory ==
    /\ pc = "while" /\ ps_row < ROW_LIMIT
    /\ StartsWithCode(val)
    /\ parse_category_codes(val).ok
    /\ ps_categories' = Append(ps_categories,
                               [codes |-> parse_category_codes(val).val,
                                name |-> CellValue(ps_sheet, ps_row, ps_column + 1)])
    /\ ps_row' = ps_row + 1
    /\ ps_seen' = ps_seen + 1
    /\ UNCHANGED << ps_sheet, ps_column, ps_extra_strings, stdout, pc, fault >>
    /\ UNCHANGED << rangeVars, sheetVars, cat_codes_col, cat_name_col, cat_result >>
    /\ UNCHANGED << topicVars, clsVars, mainVars >>

\* parse_category_codes(val) raises ValueError
ExtractRaises ==
    /\ pc = "while" /\ ps_row < ROW_LIMIT
    /\ StartsWithCode(val)
    /\ ~parse_category_codes(val).ok
    /\ fault' = parse_category_codes(val).exc
    /\ pc' = "raised"
    /\ ps_seen' = ps_seen + 1
    /\ UNCHANGED << ps_sheet, ps_column, ps_row, ps_extra_strings, ps_categories, stdout >>
    /\ UNCHANGED << rangeVars, sheetVars, cat_codes_col, cat_name_col, cat_result >>
    /\ UNCHANGED << topicVars, clsVars, mainVars >>

\* elif val is not None: extra_strings.append(str(val)); row += 1
ExtractExtraString ==
    /\ pc = "while" /\ ps_row < ROW_LIMIT
    /\ ~StartsWithCode(val)
    /\ val # None
    /\ ps_extra_strings' = Append(ps_extra_strings, ToStr(val))
    /\ ps_row' = ps_row + 1
    /\ ps_seen' = ps_seen + 1
    /\ UNCHANGED << ps_sheet, ps_column, ps_categories, stdout, pc, fault >>
    /\ UNCHANGED << rangeVars, sheetVars, cat_codes_col, cat_name_col, cat_result >>
    /\ UNCHANGED << topicVars, clsVars, mainVars >>

\* elif found_categories: break, and then return; otherwise row += 1
ExtractEmpty ==
    /\ pc = "while" /\ ps_row < ROW_LIMIT
    /\ val = None
    /\ IF found_categories
       THEN pc' = "done" /\ ps_row' = ps_row
       ELSE pc' = pc /\ ps_row' = ps_row + 1
    /\ ps_seen' = ps_seen + 1
    /\ UNCHANGED << ps_sheet, ps_column, ps_extra_strings, ps_categories, stdout, fault >>
    /\ UNCHANGED << rangeVars, sheetVars, cat_codes_col, cat_name_col, cat_result >>
    /\ UNCHANGED << topicVars, clsVars, mainVars >>

\* return {"extra_strings": extra_strings, "categories": categories}
ExtractReturn ==
    /\ pc = "while" /\ ps_row >= ROW_LIMIT
    /\ pc' = "done"
    /\ UNCHANGED << extractVars, stdout, fault >>
    /\ UNCHANGED << rangeVars, sheetVars, cat_codes_col, cat_name_col, cat_result >>
    /\ UNCHANGED << topicVars, clsVars, mainVars >>

NextExtract ==
    \/ ExtractCategory
    \/ ExtractRaises
    \/ ExtractExtraString
    \/ ExtractEmpty
    \/ ExtractReturn

SpecExtract == InitExtract /\ [][NextExtract]_vars

\* The three kinds a cell can be of
IsCategoryCell(v) == StartsWithCode(v)
IsExtraStringCell(v) == ~StartsWithCode(v) /\ v # None
IsEmptyCell(v) == v = None

\* The rows the loop examines whose cell satisfies P
RowsWhere(P(_)) ==
    { r \in 2..(ROW_LIMIT - 1) : P(CellValue(ps_sheet, r, ps_column)) }

\* C16 as stated: for every worksheet content extract_categories examines
\* rows 2 through 999 once each and then returns, never stopping early, each
\* cell counted as exactly one of category, extra string or empty.
C16_ExaminesEveryRowAndReturns ==
    pc # "while" =>
        /\ pc = "done"
        /\ ps_row = ROW_LIMIT
        /\ ps_seen = ROW_LIMIT - 2
        /\ Len(ps_categories) = Cardinality(RowsWhere(IsCategoryCell))
        /\ Len(ps_extra_strings) = Cardinality(RowsWhere(IsExtraStringCell))

\* C16, amended: extract_categories terminates for every worksheet content.
\* Each step of the loop reads the next row or ends the call, the row never
\* passes 1000, and each cell read is exactly one of category, extra string
\* or empty.  The call ends in one of two ways: it raises ValueError at the
\* first cell that starts with a digit or '-' and whose code list
\* parse_category_codes rejects, having read the rows above it once each; or
\* it returns after reading rows 2 through 999 once each, never stopping at an
\* empty cell, with one category per category cell and one extra string per
\* other non-empty cell.
C16_TerminatesReturningOrRaising ==
    /\ [](pc = "while" =>
            /\ ps_row \in 2..ROW_LIMIT
            /\ ps_seen = ps_row - 2
            /\ ps_row < ROW_LIMIT =>
                  Cardinality({ k \in 1..3 :
                      << IsCategoryCell(val), IsExtraStringCell(val), IsEmptyCell(val) >>[k] }) = 1)
    /\ [](pc = "done" =>
            /\ ps_row = ROW_LIMIT
            /\ ps_seen = ROW_LIMIT - 2
            /\ Len(ps_categories) = Cardinality(RowsWhere(IsCategoryCell))
            /\ Len(ps_extra_strings) = Cardinality(RowsWhere(IsExtraStringCell)))
    /\ [](pc = "raised" =>
            /\ fault.type = "ValueError"
            /\ ps_row < ROW_LIMIT
            /\ ps_seen = ps_row - 1
            /\ IsCategoryCell(val) /\ ~parse_category_codes(val).ok
            /\ \A r \in 2..(ps_row - 1) :
                  IsCategoryCell(CellValue(ps_sheet, r, ps_column)) =>
                      parse_category_codes(CellValue(ps_sheet, r, ps_column)).ok)
    /\ [][ pc = "while" =>
             \/ pc' = "while" /\ ps_row' = ps_row + 1 /\ ps_seen' = ps_seen + 1
             \/ pc' = "raised" /\ ps_seen' = ps_seen + 1
             \/ pc' = "done" /\ ps_row = ROW_LIMIT /\ ps_seen' = ps_seen ]_vars

\* The call returned after an empty cell below a category: the cell of row
\* 999 was still read
C16_Witness ==
    /\ pc = "done"
    /\ CellValue(ps_sheet, 2, ps_column) = PyInt(7)
    /\ CellValue(ps_sheet, 3, ps_column) = None
    /\ CellValue(ps_sheet, ROW_LIMIT - 1, ps_column) = PyInt(9)
    /\ Len(ps_categories) = 2
    /\ ps_categories[2].codes = << PyInt(9) >>

-----------------------------------------------------------------------------
(* parse_categories.py: parse_sheet, one step per header cell *)

\* len(classification["categories"]) < 12
MAX_DEFAULT_CATEGORIES == 12

MaxSheetCols == 2

\* str.upper()
Upper(s) == [i \in 1..Len(s) |-> UpperChar(s[i])]

\* sheet.title
SHEET_TITLE == << "A","g","e" >>

\* var_details_map[sheet_title]["2021 Mnemonic (variable)"]
MNEMONIC == << "A","G","E","_","V" >>

\* A classification column with n categories and the column of their names
SheetColumns(header, n) ==
    << (1 :> header) @@ [r \in 2..(n + 1) |-> PyInt(r - 1)],
       (1 :> None) @@ [r \in 2..(n + 1) |-> PyStr(<< "n","a","m","e" >>)] >>

\* A classification column whose first code parse_category_codes rejects
BadSheetColumns(header) ==
    << (1 :> header) @@ (2 :> PyStr(<< "1","x" >>)), (1 :> None) @@ (2 :> PyStr(<< "n","a","m","e" >>)) >>

SheetColumnChoices ==
    { SheetColumns(PyStr(<< "A","G","E","_","2","A" >>), 2),
      SheetColumns(PyStr(<< " ","A","G","E","_","1","1","A"," " >>), 11),
      SheetColumns(PyStr(<< "A","G","E","_","1","2","A" >>), 12),
      SheetColumns(PyStr(<< "n","o","t","e","s" >>), 1),
      BadSheetColumns(PyStr(<< "A","G","E","_","3","A" >>)) }

SelectionChoices ==
    { << << "a","l","l" >> >>, << << "2","A" >>, << "1","2","A" >> >>, << << "1","1","A" >> >>, << << "1","2","A" >> >> }

RECURSIVE Flatten(_)
Flatten(ss) == IF ss = << >> THEN << >> ELSE Head(ss) \o Flatten(Tail(ss))

InitSheet ==
    /\ ps_sheet \in { Flatten(cols) : cols \in SeqsOf(SheetColumnChoices, 1, MaxSheetCols) }
    /\ ps_var_details_map \in { << >>, (Upper(SHEET_TITLE) :> [Mnemonic |-> MNEMONIC]) }
    /\ ps_selected_vars \in { << >> } \cup { (MNEMONIC :> sel) : sel \in SelectionChoices }
    /\ ps_selected_categories = << >>
    /\ ps_classifications = << >>
    /\ ps_selected_default = FALSE
    /\ ps_parsed = 0
    /\ ps_return = None
    /\ ps_column = 0 /\ ps_row = 0
    /\ ps_extra_strings = << >> /\ ps_categories = << >> /\ ps_seen = 0
    /\ stdout = << >>
    /\ pc = "parse_sheet"
    /\ fault = None
    /\ IdleRanges
    /\ cat_codes_col = << >> /\ cat_name_col = << >> /\ cat_result = None
    /\ IdleTopics /\ IdleCls /\ IdleMain

sheet_title == Upper(SHEET_TITLE)

\* sheet_title in var_details_map and title_as_in_index in selected_vars
IsSelectedSheet ==
    IF sheet_title \in DOMAIN ps_var_details_map
    THEN ps_var_details_map[sheet_title].Mnemonic \in DOMAIN ps_selected_vars
    ELSE FALSE

\* if sheet_title not in var_details_map: return None
\* if title_as_in_index not in selected_vars: return None
SheetReturnsNone ==
    /\ pc = "parse_sheet"
    /\ ~IsSelectedSheet
    /\ ps_return' = None
    /\ pc' = "done"
    /\ UNCHANGED << ps_selected_categories, ps_classifications, ps_selected_default, ps_parsed,
                    ps_var_details_map, ps_selected_vars >>
    /\ UNCHANGED << rangeVars, extractVars, stdout, fault, cat_codes_col, cat_name_col, cat_result >>
    /\ UNCHANGED << topicVars, clsVars, mainVars >>

\* selected_categories = selected_vars[title_as_in_index], up to the for-loop
SheetBegin ==
    /\ pc = "parse_sheet"
    /\ IsSelectedSheet
    /\ ps_selected_categories' = ps_selected_vars[ps_var_details_map[sheet_title].Mnemonic]
    /\ ps_parsed' = 0
    /\ ps_classifications' = << >>
    /\ ps_selected_default' = FALSE
    /\ pc' = "for"
    /\ UNCHANGED << ps_var_details_map, ps_selected_vars, ps_return >>
    /\ UNCHANGED << rangeVars, extractVars, stdout, fault, cat_codes_col, cat_name_col, cat_result >>
    /\ UNCHANGED << topicVars, clsVars, mainVars >>

\* for cell in rows[0]: the header cell the loop is about to process
cell == [value |-> CellValue(ps_sheet, 1, ps_column + 1), column |-> ps_column + 1]

\* isinstance(cell.value, str) and re.search('[A-Z]', cell.value)
IsClassificationHeader(v) == IsStr(v) /\ \E i \in 1..Len(v.s) : IsUpper(v.s[i])

\* cell.value.strip().split("_")[-1]
short_category_code(v) ==
    LET parts == Split(Strip(v.s), "_") IN parts[Len(parts)]

\* selected_categories[0] == "all" or short_category_code in selected_categories
IsSelected(v, selected) ==
    \/ selected[1] = << "a","l","l" >>
    \/ \E k \in 1..Len(selected) : selected[k] = short_category_code(v)

\* The default test with selected_default left out of it
classification_default_any_small(selected_default, classification) ==
    Len(classification.categories) < MAX_DEFAULT_CATEGORIES

\* if not selected_default and len(classification["categories"]) < 12
classification_default(selected_default, classification) ==
    ~selected_default /\ Len(classification.categories) < MAX_DEFAULT_CATEGORIES

\* a header cell that is no classification code, or one not selected
SheetSkipCell ==
    /\ pc = "for" /\ ps_column < Len(ps_sheet)
    /\ ~(IsClassificationHeader(cell.value) /\ IsSelected(cell.value, ps_selected_categories))
    /\ ps_column' = ps_column + 1
    /\ UNCHANGED << ps_sheet, ps_row, ps_extra_strings, ps_categories, ps_seen >>
    /\ UNCHANGED << sheetVars, rangeVars, stdout, pc, fault, cat_codes_col, cat_name_col, cat_result >>
    /\ UNCHANGED << topicVars, clsVars, mainVars >>

\* classification = extract_categories(sheet, cell.column); ...; classifications.append(classification)
SheetClassification ==
    /\ pc = "for" /\ ps_column < Len(ps_sheet)
    /\ IsClassificationHeader(cell.value) /\ IsSelected(cell.value, ps_selected_categories)
    /\ LET classification == extract_categories(ps_sheet, cell.column)
       IN  /\ classification.ok
           /\ ps_selected_default' =
                  (ps_selected_default \/ classification_default(ps_selected_default, classification.val))
           /\ ps_classifications' =
                  Append(ps_classifications,
                         [extra_strings |-> classification.val.extra_strings,
                          categories |-> classification.val.categories,
                          default |-> classification_default(ps_selected_default, classification.val),
                          classification_code |-> cell.value.s])
    /\ ps_parsed' = ps_parsed + 1
    /\ ps_column' = ps_column + 1
    /\ UNCHANGED << ps_selected_categories, ps_var_details_map, ps_selected_vars, ps_return >>
    /\ UNCHANGED << ps_sheet, ps_row, ps_extra_strings, ps_categories, ps_seen >>
    /\ UNCHANGED << rangeVars, stdout, pc, fault, cat_codes_col, cat_name_col, cat_result >>
    /\ UNCHANGED << topicVars, clsVars, mainVars >>

\* extract_categories raises
SheetExtractRaises ==
    /\ pc = "for" /\ ps_column < Len(ps_sheet)
    /\ IsClassificationHeader(cell.value) /\ IsSelected(cell.value, ps_selected_categories)
    /\ ~extract_categories(ps_sheet, cell.column).ok
    /\ fault' = extract_categories(ps_sheet, cell.column).exc
    /\ pc' = "raised"
    /\ UNCHANGED << extractVars, sheetVars, rangeVars, stdout, cat_codes_col, cat_name_col, cat_result >>
    /\ UNCHANGED << topicVars, clsVars, mainVars >>

\* print("Unexpected number of categories", ...); raise 1 (a TypeError: 1 is no exception)
SheetCountMismatch ==
    /\ pc = "for" /\ ps_column = Len(ps_sheet)
    /\ ps_selected_categories[1] # << "a","l","l" >> /\ ps_parsed # Len(ps_selected_categories)
    /\ stdout' = Append(stdout, [msg |-> "Unexpected number of categories", arg |-> sheet_title])
    /\ fault' = Exc("TypeError")
    /\ pc' = "raised"
    /\ UNCHANGED << extractVars, sheetVars, rangeVars, cat_codes_col, cat_name_col, cat_result >>
    /\ UNCHANGED << topicVars, clsVars, mainVars >>

\* return {"metadata": var_details_map[sheet_title], "classifications": classifications}
SheetReturn ==
    /\ pc = "for" /\ ps_column = Len(ps_sheet)
    /\ ~(ps_selected_categories[1] # << "a","l","l" >> /\ ps_parsed # Len(ps_selected_categories))
    /\ ps_return' = [metadata |-> ps_var_details_map[sheet_title],
                     classifications |-> ps_classifications]
    /\ pc' = "done"
    /\ UNCHANGED << ps_selected_categories, ps_classifications, ps_selected_default, ps_parsed,
                    ps_var_details_map, ps_selected_vars >>
    /\ UNCHANGED << rangeVars, extractVars, stdout, fault, cat_codes_col, cat_name_col, cat_result >>
    /\ UNCHANGED << topicVars, clsVars, mainVars >>

NextSheet ==
    \/ SheetReturnsNone
    \/ SheetBegin
    \/ SheetSkipCell
    \/ SheetClassification
    \/ SheetExtractRaises
    \/ SheetCountMismatch
    \/ SheetReturn

SpecSheet == InitSheet /\ [][NextSheet]_vars

\* The header cells parse_sheet selects, in column order
SelectedHeaderColumns ==
    SelectSeq([c \in 1..Len(ps_sheet) |-> c],
              LAMBDA c : /\ IsClassificationHeader(CellValue(ps_sheet, 1, c))
                         /\ IsSelected(CellValue(ps_sheet, 1, c), ps_selected_categories))

\* The number of cells of a column, from row 2 down, that start a category
CategoryCount(c) ==
    Cardinality({ r \in 2..(ROW_LIMIT - 1) : StartsWithCode(CellValue(ps_sheet, r, c)) })

\* C15: of the classifications parse_sheet returns at most one has default =
\* True: the first selected classification, in header column order, that has
\* fewer than 12 categories; every other one has default = False, and none is
\* default when no selected classification has fewer than 12 categories.
C15_OneDefaultClassification ==
    (pc = "done" /\ ps_return # None) =>
        LET cls == ps_return.classifications
            small == { k \in 1..Len(SelectedHeaderColumns) :
                         CategoryCount(SelectedHeaderColumns[k]) < 12 }
        IN  /\ Len(cls) = Len(SelectedHeaderColumns)
            /\ \A k \in 1..Len(cls) :
                  /\ cls[k].classification_code = CellValue(ps_sheet, 1, SelectedHeaderColumns[k]).s
                  /\ cls[k].default <=> (small # {} /\ k = Min(small))
            /\ Cardinality({ k \in 1..Len(cls) : cls[k].default }) <= 1

\* A selected classification with fewer than 12 categories follows one with
\* 12: the second classification is the default, the first is not
C15_Witness ==
    /\ pc = "done" /\ ps_return # None
    /\ Len(ps_return.classifications) >= 2
    /\ Len(ps_return.classifications[1].categories) = 12
    /\ ~ps_return.classifications[1].default
    /\ ps_return.classifications[2].default

====
